---------------------------- MODULE Spec2Model ----------------------------
(***************************************************************************)
(* The agent coordination and performance-adaptive voting engine of        *)
(* backend/ai_firm/agent_manager.py: the agent registry built by           *)
(* AgentManager.__init__, decision elicitation, the weighted voting tally, *)
(* and the outcome feedback that updates an agent's performance score and  *)
(* confidence; with it the route /coordinate-decision, the method          *)
(* update_agent_performance as two request threads run it, and the mock    *)
(* exchange client behind the route /place_order.                          *)
(*                                                                         *)
(* Numbers.  The program computes with Python floats.  Here a float is an  *)
(* exact rational <<n, d>> in lowest terms with d > 0, so that sums,       *)
(* products, quotients and comparisons are those of the real numbers the   *)
(* floats stand for (rounding in the last binary digit is not modelled).   *)
(*                                                                         *)
(* Python values of unknown type (the entries of a request context, of a   *)
(* performance_data dict) are tagged records: [t |-> "num", v |-> <<n,d>>],*)
(* [t |-> "str", v |-> <<word, ...>>] (a string, as the sequence of the    *)
(* words it contains) and [t |-> "none"] (None).  A dict is a function     *)
(* whose DOMAIN is the set of keys present.                                *)
(*                                                                         *)
(* Identifiers.  uuid4() ids are fresh: an agent's id is its position in   *)
(* the registry's insertion order, a session's id the number of sessions   *)
(* created before it plus one.                                             *)
(***************************************************************************)
EXTENDS Integers, Sequences, FiniteSets, TLC

VARIABLES
  agents,                \* AgentManager.agents: id -> Agent, in insertion order
  agent_registry,        \* AgentManager.agent_registry: name -> id
  voting_sessions,       \* AgentManager.voting_sessions
  performance_history,   \* AgentPerformanceTracker.performance_history
  coordination_sessions, \* AgentPerformanceTracker.coordination_sessions
  now,                   \* the clock read by datetime.now()
  threads,               \* the calls in progress in the request threads
  binance_client,        \* TradingService.binance_client: balances and open orders
  last                   \* the last call made on the manager and what it gave back

vars ==
  <<agents, agent_registry, voting_sessions, performance_history,
    coordination_sessions, now, threads, binance_client, last>>

---------------------------------------------------------------------------
(* Float arithmetic, on exact rationals.                                   *)

RECURSIVE GCD(_, _)
GCD(a, b) ==
  IF b = 0 THEN a ELSE GCD(b, a % b)

Abs(x) ==
  IF x < 0 THEN -x ELSE x

LCM(a, b) ==
  (a \div GCD(a, b)) * b

Norm(n, d) ==
  LET g == GCD(Abs(n), d) IN <<n \div g, d \div g>>

Zero ==
  <<0, 1>>

One ==
  <<1, 1>>

FAdd(x, y) ==
  LET l == LCM(x[2], y[2])
  IN  Norm(x[1] * (l \div x[2]) + y[1] * (l \div y[2]), l)

FSub(x, y) ==
  FAdd(x, <<-y[1], y[2]>>)

FMul(x, y) ==
  LET g1 == GCD(Abs(x[1]), y[2])
      g2 == GCD(Abs(y[1]), x[2])
  IN  Norm((x[1] \div g1) * (y[1] \div g2), (x[2] \div g2) * (y[2] \div g1))

\* x / y for y > 0 (a zero divisor raises ZeroDivisionError at the caller)
FDiv(x, y) ==
  FMul(x, <<y[2], y[1]>>)

FLt(x, y) ==
  LET l == LCM(x[2], y[2])
  IN  x[1] * (l \div x[2]) < y[1] * (l \div y[2])

FGt(x, y) ==
  FLt(y, x)

\* Python's min(a, b) and max(a, b): the first argument unless the second beats it
FMin(a, b) ==
  IF FLt(b, a) THEN b ELSE a

FMax(a, b) ==
  IF FGt(b, a) THEN b ELSE a

---------------------------------------------------------------------------
(* Python values, lists and dicts.                                         *)

\* A list given by its items, as a sequence
List(items) ==
  items \o <<>>

Num(n, d) ==
  [t |-> "num", v |-> Norm(n, d)]

Str(words) ==
  [t |-> "str", v |-> words]

None ==
  [t |-> "none"]

\* dict.get(key, default)
DictGet(dict, key, default) ==
  IF key \in DOMAIN dict THEN dict[key] ELSE default

\* dict[key] = value
DictSet(dict, key, value) ==
  [k \in DOMAIN dict \cup {key} |-> IF k = key THEN value ELSE dict[k]]

EmptyDict ==
  [k \in {} |-> None]

---------------------------------------------------------------------------
(* The mock exchange client of binance/client.py.                          *)

\* BinanceClient.__init__
NewBinanceClient ==
  [account_balance |-> ("USD" :> <<100000, 1>>) @@ ("BTC" :> Zero) @@ ("ETH" :> Zero),
   open_orders     |-> <<>>]

---------------------------------------------------------------------------
(* The registry: _initialize_ai_firm and _create_agent.                    *)

FirmTable ==
  <<
    [name |-> "Warren", role |-> "director", department |-> "market_intelligence",
     personality |-> ("risk_aversion" :> <<4, 5>>) @@ ("fundamentals_focus" :> <<9, 10>>) @@ ("patience" :> <<9, 10>>),
     expertise |-> <<"value_investing", "fundamental_analysis", "risk_assessment">>, base_confidence |-> <<17, 20>>],
    [name |-> "Cathie", role |-> "senior", department |-> "market_intelligence",
     personality |-> ("innovation_focus" :> <<9, 10>>) @@ ("growth_seeking" :> <<4, 5>>) @@ ("risk_tolerance" :> <<7, 10>>),
     expertise |-> <<"growth_investing", "innovation_analysis", "sector_rotation">>, base_confidence |-> <<4, 5>>],
    [name |-> "Quant", role |-> "senior", department |-> "market_intelligence",
     personality |-> ("mathematical_precision" :> <<9, 10>>) @@ ("pattern_recognition" :> <<17, 20>>) @@ ("objectivity" :> <<9, 10>>),
     expertise |-> <<"quantitative_analysis", "statistical_modeling", "algorithmic_signals">>, base_confidence |-> <<22, 25>>],
    [name |-> "Data_Whisperer", role |-> "specialist", department |-> "market_intelligence",
     personality |-> ("pattern_detection" :> <<9, 10>>) @@ ("data_synthesis" :> <<17, 20>>) @@ ("market_intuition" :> <<7, 10>>),
     expertise |-> <<"data_aggregation", "pattern_analysis", "market_context">>, base_confidence |-> <<41, 50>>],
    [name |-> "Macro_Monk", role |-> "specialist", department |-> "market_intelligence",
     personality |-> ("strategic_thinking" :> <<17, 20>>) @@ ("macro_vision" :> <<9, 10>>) @@ ("decision_clarity" :> <<4, 5>>),
     expertise |-> <<"macro_analysis", "strategic_decisions", "market_timing">>, base_confidence |-> <<79, 100>>],
    [name |-> "Trade_Executor", role |-> "director", department |-> "trade_operations",
     personality |-> ("execution_speed" :> <<9, 10>>) @@ ("accuracy" :> <<9, 10>>) @@ ("reliability" :> <<17, 20>>),
     expertise |-> <<"order_execution", "market_microstructure", "slippage_minimization">>, base_confidence |-> <<87, 100>>],
    [name |-> "Portfolio_Optimizer", role |-> "senior", department |-> "trade_operations",
     personality |-> ("optimization_focus" :> <<9, 10>>) @@ ("balance_seeking" :> <<4, 5>>) @@ ("efficiency" :> <<17, 20>>),
     expertise |-> <<"portfolio_construction", "asset_allocation", "rebalancing">>, base_confidence |-> <<83, 100>>],
    [name |-> "Liquidity_Hunter", role |-> "specialist", department |-> "trade_operations",
     personality |-> ("market_timing" :> <<4, 5>>) @@ ("liquidity_awareness" :> <<9, 10>>) @@ ("adaptability" :> <<3, 4>>),
     expertise |-> <<"liquidity_analysis", "market_impact", "execution_optimization">>, base_confidence |-> <<39, 50>>],
    [name |-> "Arbitrage_Scout", role |-> "analyst", department |-> "trade_operations",
     personality |-> ("opportunity_detection" :> <<17, 20>>) @@ ("speed" :> <<9, 10>>) @@ ("precision" :> <<4, 5>>),
     expertise |-> <<"arbitrage_opportunities", "price_discrepancies", "cross_market_analysis">>, base_confidence |-> <<19, 25>>],
    [name |-> "Degen_Auditor", role |-> "director", department |-> "risk_control",
     personality |-> ("risk_vigilance" :> <<9, 10>>) @@ ("skepticism" :> <<4, 5>>) @@ ("contrarian_thinking" :> <<7, 10>>),
     expertise |-> <<"risk_validation", "audit_trails", "red_flag_detection">>, base_confidence |-> <<21, 25>>],
    [name |-> "VaR_Guardian", role |-> "senior", department |-> "risk_control",
     personality |-> ("mathematical_rigor" :> <<9, 10>>) @@ ("conservatism" :> <<17, 20>>) @@ ("model_accuracy" :> <<4, 5>>),
     expertise |-> <<"value_at_risk", "stress_testing", "risk_modeling">>, base_confidence |-> <<81, 100>>],
    [name |-> "Correlation_Detective", role |-> "specialist", department |-> "risk_control",
     personality |-> ("pattern_recognition" :> <<17, 20>>) @@ ("system_thinking" :> <<4, 5>>) @@ ("vigilance" :> <<9, 10>>),
     expertise |-> <<"correlation_analysis", "systemic_risk", "portfolio_diversification">>, base_confidence |-> <<77, 100>>],
    [name |-> "Black_Swan_Sentinel", role |-> "analyst", department |-> "risk_control",
     personality |-> ("paranoia" :> <<4, 5>>) @@ ("scenario_analysis" :> <<17, 20>>) @@ ("preparedness" :> <<9, 10>>),
     expertise |-> <<"tail_risk", "scenario_planning", "crisis_preparation">>, base_confidence |-> <<37, 50>>],
    [name |-> "Performance_Analyst", role |-> "director", department |-> "performance_lab",
     personality |-> ("analytical_precision" :> <<9, 10>>) @@ ("objectivity" :> <<17, 20>>) @@ ("insight_generation" :> <<4, 5>>),
     expertise |-> <<"performance_attribution", "benchmarking", "metric_analysis">>, base_confidence |-> <<43, 50>>],
    [name |-> "Alpha_Hunter", role |-> "senior", department |-> "performance_lab",
     personality |-> ("alpha_detection" :> <<9, 10>>) @@ ("strategy_evaluation" :> <<17, 20>>) @@ ("optimization" :> <<4, 5>>),
     expertise |-> <<"alpha_generation", "strategy_performance", "factor_analysis">>, base_confidence |-> <<41, 50>>],
    [name |-> "Backtesting_Engine", role |-> "specialist", department |-> "performance_lab",
     personality |-> ("historical_analysis" :> <<9, 10>>) @@ ("simulation_accuracy" :> <<17, 20>>) @@ ("validation" :> <<4, 5>>),
     expertise |-> <<"historical_testing", "strategy_validation", "simulation_modeling">>, base_confidence |-> <<4, 5>>],
    [name |-> "The_Ghost", role |-> "analyst", department |-> "performance_lab",
     personality |-> ("meta_analysis" :> <<4, 5>>) @@ ("emergent_behavior" :> <<9, 10>>) @@ ("intuition" :> <<7, 10>>),
     expertise |-> <<"emotional_intelligence", "meta_layer_analysis", "emergent_patterns">>, base_confidence |-> <<3, 4>>],
    [name |-> "Report_Generator", role |-> "director", department |-> "communications",
     personality |-> ("communication_clarity" :> <<9, 10>>) @@ ("synthesis_ability" :> <<17, 20>>) @@ ("insight_presentation" :> <<4, 5>>),
     expertise |-> <<"report_generation", "executive_summaries", "stakeholder_communication">>, base_confidence |-> <<83, 100>>],
    [name |-> "Market_Narrator", role |-> "senior", department |-> "communications",
     personality |-> ("storytelling" :> <<17, 20>>) @@ ("market_interpretation" :> <<4, 5>>) @@ ("narrative_construction" :> <<9, 10>>),
     expertise |-> <<"market_storytelling", "trend_narration", "insight_communication">>, base_confidence |-> <<39, 50>>],
    [name |-> "Alert_Coordinator", role |-> "specialist", department |-> "communications",
     personality |-> ("urgency_assessment" :> <<9, 10>>) @@ ("priority_management" :> <<17, 20>>) @@ ("notification_precision" :> <<4, 5>>),
     expertise |-> <<"alert_management", "notification_systems", "escalation_protocols">>, base_confidence |-> <<79, 100>>]
  >>

\* random.uniform(0.05, 0.15): the rates a run may draw
LearningRates ==
  <<<<1, 20>>, <<1, 10>>, <<3, 20>>>>

\* The draws of one construction: agent i gets LearningRates[((i + shift) % 3) + 1]
LrShifts ==
  0 .. (Len(LearningRates) - 2)

DrawLearningRate(i, shift) ==
  LearningRates[((i + shift) % Len(LearningRates)) + 1]

\* A table whose senior and specialist weights are swapped
vote_weightsSwapped(role) ==
  IF role = "director" THEN <<1, 1>>
  ELSE IF role = "senior" THEN <<3, 5>>
  ELSE IF role = "specialist" THEN <<4, 5>>
  ELSE <<2, 5>>

\* A table that gives an analyst no weight
vote_weightsUnpaidAnalyst(role) ==
  IF role = "director" THEN <<1, 1>>
  ELSE IF role = "senior" THEN <<4, 5>>
  ELSE IF role = "specialist" THEN <<3, 5>>
  ELSE Zero

vote_weights(role) ==
  CASE role = "director"   -> <<1, 1>>
    [] role = "senior"     -> <<4, 5>>
    [] role = "specialist" -> <<3, 5>>
    [] role = "analyst"    -> <<2, 5>>

DefaultPerformanceScore ==
  <<3, 4>>

\* The Agent a call of _create_agent constructs
NewAgent(agent_id, row, learning_rate, created_at) ==
  [id                 |-> agent_id,
   name               |-> row.name,
   role               |-> row.role,
   department         |-> row.department,
   personality_traits |-> row.personality,
   expertise_areas    |-> row.expertise,
   confidence_level   |-> row.base_confidence,
   learning_rate      |-> learning_rate,
   vote_weight        |-> vote_weights(row.role),
   created_at         |-> created_at,
   performance_score  |-> DefaultPerformanceScore,
   active             |-> TRUE]

\* _create_agent on st = [agents, agent_registry]: the agent's id is fresh,
\* so the agent is appended; the name is bound to the id, whatever it was
\* bound to before
CreateAgent(st, row, learning_rate, created_at) ==
  LET agent_id == Len(st.agents) + 1
  IN  [agents         |-> Append(st.agents,
                                 NewAgent(agent_id, row, learning_rate, created_at)),
       agent_registry |-> DictSet(st.agent_registry, row.name, agent_id)]

\* The registry after the calls of _create_agent that _initialize_ai_firm
\* makes, one for each row of FirmTable in turn
InitializeAiFirm(shift, created_at) ==
  [agents         |-> List([i \in 1 .. Len(FirmTable) |->
                              NewAgent(i, FirmTable[i], DrawLearningRate(i, shift),
                                       created_at)]),
   agent_registry |-> [n \in {FirmTable[i].name : i \in 1 .. Len(FirmTable)} |->
                         CHOOSE i \in 1 .. Len(FirmTable) :
                           /\ FirmTable[i].name = n
                           /\ \A j \in (i + 1) .. Len(FirmTable) : FirmTable[j].name # n]]

\* BinanceClient._get_current_price
GetCurrentPrice(symbol) ==
  IF symbol = "BTC" THEN <<30000, 1>>
  ELSE IF symbol = "ETH" THEN <<2000, 1>>
  ELSE IF symbol = "AAPL" THEN <<170, 1>>
  ELSE One

\* BinanceClient.place_order: [raised, the client after the call, result].
\* A price is <<>> for None, or <<p>>.  A sale of a symbol the account has
\* no entry for, which passes the test of line 30 when the quantity is
\* negative, credits USD and then raises KeyError at line 32
PlaceOrder(client, symbol, side, type, quantity, price) ==
  LET balance == client.account_balance
  IN  IF type = "MARKET"
      THEN IF side = "BUY"
           THEN LET cost == FMul(quantity, GetCurrentPrice(symbol))
                IN  IF ~ FLt(balance["USD"], cost)
                    THEN LET paid == DictSet(balance, "USD", FSub(balance["USD"], cost))
                         IN  [raised |-> "none",
                              client |-> [client EXCEPT !.account_balance =
                                            DictSet(paid, symbol,
                                                    FAdd(DictGet(paid, symbol, Zero),
                                                         quantity))],
                              result |-> [status |-> "FILLED"]]
                    ELSE [raised |-> "ValueError", client |-> client,
                          result |-> [status |-> ""]]
           ELSE IF ~ FLt(DictGet(balance, symbol, Zero), quantity)
                THEN LET paid == DictSet(balance, "USD",
                                         FAdd(balance["USD"],
                                              FMul(quantity, GetCurrentPrice(symbol))))
                     IN  IF symbol \in DOMAIN paid
                         THEN [raised |-> "none",
                               client |-> [client EXCEPT !.account_balance =
                                             DictSet(paid, symbol,
                                                     FSub(paid[symbol], quantity))],
                               result |-> [status |-> "FILLED"]]
                         ELSE [raised |-> "KeyError",
                               client |-> [client EXCEPT !.account_balance = paid],
                               result |-> [status |-> ""]]
                ELSE [raised |-> "ValueError", client |-> client,
                      result |-> [status |-> ""]]
      ELSE [raised |-> "none",
            client |-> [client EXCEPT !.open_orders =
                          Append(@, [symbol |-> symbol, side |-> side, type |-> type,
                                     quantity |-> quantity, price |-> price,
                                     status |-> "NEW"])],
            result |-> [status |-> "NEW"]]

\* str.upper(), for the order types of the requests
Upper(order_type) ==
  CASE order_type = "buy"  -> "BUY"
    [] order_type = "Buy"  -> "BUY"
    [] order_type = "sell" -> "SELL"
    [] OTHER               -> order_type

\* TradingService.place_order: the side and the type of the order
ServicePlaceOrder(client, symbol, order_type, quantity, price) ==
  PlaceOrder(client, symbol,
             IF Upper(order_type) = "BUY" THEN "BUY" ELSE "SELL",
             IF price = <<>> THEN "MARKET" ELSE "LIMIT",
             quantity, price)

AgentIds ==
  1 .. Len(agents)

\* The request threads of the server, and a thread that runs no call
Threads ==
  {1, 2}

Idle ==
  [pc |-> "idle"]

Init ==
  \E shift \in LrShifts :
    LET st == InitializeAiFirm(shift, 0)
    IN  /\ agents = st.agents
        /\ agent_registry = st.agent_registry
        /\ voting_sessions = <<>>
        /\ performance_history = EmptyDict
        /\ coordination_sessions = <<>>
        /\ now = 0
        /\ threads = [t \in Threads |-> Idle]
        /\ binance_client = NewBinanceClient
        /\ last = [op |-> "init", raised |-> "none"]

---------------------------------------------------------------------------
(* The voting tally: _conduct_voting_session.                              *)

\* The position of a recommendation among the keys of vote_tally, 0 if absent
KeyIndex(vote_tally, recommendation) ==
  IF \E i \in 1 .. Len(vote_tally) : vote_tally[i].recommendation = recommendation
  THEN CHOOSE i \in 1 .. Len(vote_tally) : vote_tally[i].recommendation = recommendation
  ELSE 0

\* The sum of the floats w[lo], ..., w[hi], taken by halves
RECURSIVE SumRange(_, _, _)
SumRange(w, lo, hi) ==
  IF lo > hi THEN Zero
  ELSE IF lo = hi THEN w[lo]
  ELSE LET mid == (lo + hi) \div 2
       IN  FAdd(SumRange(w, lo, mid), SumRange(w, mid + 1, hi))

\* The state of vote_tally and total_weight after the loop over the
\* decisions.  vote_tally is a dict, kept as the sequence of its items in
\* insertion order: a key is inserted by the first decision that recommends
\* it, and its value is the sum of the weights of the decisions that do
VoteTally(decisions) ==
  LET n == Len(decisions)
      weight == List([i \in 1 .. n |->
                        FMul(decisions[i].vote_weight, decisions[i].confidence)])
      inserts == {i \in 1 .. n :
                    \A j \in 1 .. (i - 1) :
                      decisions[j].recommendation # decisions[i].recommendation}
      inserted(k) == CHOOSE i \in inserts : Cardinality({j \in inserts : j < i}) = k - 1
      share(r) == List([i \in 1 .. n |->
                          IF decisions[i].recommendation = r THEN weight[i] ELSE Zero])
  IN  [vote_tally   |-> List([k \in 1 .. Cardinality(inserts) |->
                                LET r == decisions[inserted(k)].recommendation
                                IN  [recommendation |-> r,
                                     weight         |-> SumRange(share(r), 1, n)]]),
       total_weight |-> SumRange(weight, 1, n)]

\* A tally that takes the first recommendation seen as the winner
PyMaxFirstItem(items) ==
  items[1]

\* A tally whose max lets a later item win a tie
PyMaxLastOfTies(items) ==
  items[CHOOSE i \in 1 .. Len(items) :
          /\ \A j \in 1 .. (i - 1) : ~ FGt(items[j].weight, items[i].weight)
          /\ \A j \in (i + 1) .. Len(items) : FLt(items[j].weight, items[i].weight)]

\* max(items, key=weight): the first item that no item beats, that is, the
\* item greater than all before it and not less than any after it
PyMax(items) ==
  items[CHOOSE i \in 1 .. Len(items) :
          /\ \A j \in 1 .. (i - 1) : FLt(items[j].weight, items[i].weight)
          /\ \A j \in (i + 1) .. Len(items) : ~ FGt(items[j].weight, items[i].weight)]

\* A tally whose max() has a default, so that an empty list fails only at
\* the division
TallyRaisesOnZeroTotal(decisions) ==
  IF VoteTally(decisions).total_weight = Zero THEN "ZeroDivisionError" ELSE "none"

\* What the call raises: max() of no items, or the division of the
\* distribution by a total weight of 0
TallyRaises(decisions) ==
  IF decisions = <<>> THEN "ValueError"
  ELSE IF VoteTally(decisions).total_weight = Zero
       THEN "ZeroDivisionError"
       ELSE "none"

\* A consensus strength that is the winning weight, not its share
ConsensusStrengthUndivided(winning_recommendation, total_weight) ==
  winning_recommendation.weight

ConsensusStrength(winning_recommendation, total_weight) ==
  IF FGt(total_weight, Zero)
  THEN FDiv(winning_recommendation.weight, total_weight)
  ELSE Zero

\* A distribution relative to the winning weight, not to the total
VoteDistributionOverWinner(vote_tally, total_weight) ==
  [k \in {vote_tally[i].recommendation : i \in 1 .. Len(vote_tally)} |->
     FDiv(vote_tally[KeyIndex(vote_tally, k)].weight, PyMax(vote_tally).weight)]

VoteDistribution(vote_tally, total_weight) ==
  [k \in {vote_tally[i].recommendation : i \in 1 .. Len(vote_tally)} |->
     FDiv(vote_tally[KeyIndex(vote_tally, k)].weight, total_weight)]

\* The voting_result dict of a call that does not raise
VotingResult(decisions, session_timestamp, session_id) ==
  LET t == VoteTally(decisions)
      winning_recommendation == PyMax(t.vote_tally)
  IN  [winning_recommendation |-> winning_recommendation.recommendation,
       consensus_strength     |-> ConsensusStrength(winning_recommendation, t.total_weight),
       vote_distribution      |-> VoteDistribution(t.vote_tally, t.total_weight),
       total_votes            |-> Len(decisions),
       participating_agents   |-> List([i \in 1 .. Len(decisions) |-> decisions[i].agent_id]),
       session_timestamp      |-> session_timestamp,
       session_id             |-> session_id]

\* The locals of the call as they stand when it returns or raises
TallyLocals(decisions) ==
  LET t == VoteTally(decisions)
  IN  [vote_tally   |-> t.vote_tally,
       total_weight |-> t.total_weight,
       winning_recommendation |->
         IF decisions = <<>> THEN <<>> ELSE <<PyMax(t.vote_tally)>>]

\* _conduct_voting_session called with a list of decisions: the session is
\* appended to voting_sessions unless the call raises first
ConductVotingSession(decisions) ==
  LET raised == TallyRaises(decisions)
      result == VotingResult(decisions, now, Len(voting_sessions) + 1)
  IN  /\ voting_sessions' =
           IF raised = "none" THEN Append(voting_sessions, result) ELSE voting_sessions
      /\ last' = [op        |-> "_conduct_voting_session",
                  decisions |-> decisions,
                  raised    |-> raised,
                  locals    |-> TallyLocals(decisions),
                  result    |-> IF raised = "none" THEN <<result>> ELSE <<>>]
      /\ UNCHANGED <<agents, agent_registry, performance_history,
                     coordination_sessions, now,
                 threads, binance_client>>

---------------------------------------------------------------------------
(* Decision elicitation: _get_agent_decision and what it calls.            *)

\* any(exp in context_type for exp in agent.expertise_areas), for a string
Contains(words, exp) ==
  \E i \in 1 .. Len(words) : words[i] = exp

ExpertiseMatch(agent, context_type) ==
  \E e \in 1 .. Len(agent.expertise_areas) :
    Contains(context_type.v, agent.expertise_areas[e])

\* A comparison of a context value with a float raises TypeError unless the
\* value is a number
ComparisonRaises(value) ==
  value.t # "num"

\* A confidence that is reduced from a volatility of 0.3 on
CalculateAgentConfidenceInclusive(agent, context) ==
  LET base_confidence == agent.confidence_level
      context_type == DictGet(context, "market_type", Str(<<"general">>))
      market_volatility == DictGet(context, "volatility", Num(1, 10))
      boosted == IF ExpertiseMatch(agent, context_type)
                 THEN FMul(base_confidence, <<6, 5>>)
                 ELSE base_confidence
      adjusted == IF "risk_aversion" \in DOMAIN agent.personality_traits
                     /\ ~ FLt(market_volatility.v, <<3, 10>>)
                  THEN FMul(boosted,
                            FSub(One, FMul(agent.personality_traits["risk_aversion"],
                                           <<1, 5>>)))
                  ELSE boosted
  IN  IF context_type.t # "str" \/ market_volatility.t # "num"
      THEN [raised |-> "TypeError", value |-> Zero]
      ELSE [raised |-> "none", value |-> FMin(One, FMax(<<1, 10>>, adjusted))]

\* [raised, value]: the confidence, or the TypeError of a context value of
\* the wrong type
CalculateAgentConfidence(agent, context) ==
  LET base_confidence == agent.confidence_level
      context_type == DictGet(context, "market_type", Str(<<"general">>))
      market_volatility == DictGet(context, "volatility", Num(1, 10))
  IN  IF context_type.t # "str" /\ Len(agent.expertise_areas) > 0
      THEN [raised |-> "TypeError", value |-> Zero]
      ELSE
        LET boosted == IF ExpertiseMatch(agent, context_type)
                       THEN FMul(base_confidence, <<6, 5>>)
                       ELSE base_confidence
        IN  IF "risk_aversion" \in DOMAIN agent.personality_traits
            THEN IF ComparisonRaises(market_volatility)
                 THEN [raised |-> "TypeError", value |-> Zero]
                 ELSE [raised |-> "none",
                       value  |->
                         LET adjusted ==
                               IF FGt(market_volatility.v, <<3, 10>>)
                               THEN FMul(boosted,
                                         FSub(One, FMul(agent.personality_traits["risk_aversion"],
                                                        <<1, 5>>)))
                               ELSE boosted
                         IN  FMin(One, FMax(<<1, 10>>, adjusted))]
            ELSE [raised |-> "none", value |-> FMin(One, FMax(<<1, 10>>, boosted))]

\* The rule of one persona: key, default, comparison and the two answers
PersonaRule(name) ==
  CASE name = "Warren" ->
         [key |-> "pe_ratio", default |-> Num(20, 1), below |-> TRUE,
          bound |-> <<15, 1>>, yes |-> "CONSERVATIVE_BUY", no |-> "HOLD"]
    [] name = "Cathie" ->
         [key |-> "innovation_score", default |-> Num(1, 2), below |-> FALSE,
          bound |-> <<7, 10>>, yes |-> "GROWTH_BUY", no |-> "RESEARCH"]
    [] name = "Quant" ->
         [key |-> "technical_score", default |-> Num(1, 2), below |-> FALSE,
          bound |-> <<3, 5>>, yes |-> "SIGNAL_BUY", no |-> "SIGNAL_SELL"]
    [] name = "Degen_Auditor" ->
         [key |-> "risk_score", default |-> Num(1, 2), below |-> TRUE,
          bound |-> <<3, 10>>, yes |-> "RISK_APPROVED", no |-> "RISK_WARNING"]

Personas ==
  {"Warren", "Cathie", "Quant", "Degen_Auditor"}

\* A default rule whose bands include their lower bounds
GenerateAgentRecommendationInclusive(agent, context) ==
  IF agent.name \in Personas
  THEN
    LET rule == PersonaRule(agent.name)
        x == DictGet(context, rule.key, rule.default)
    IN  IF ComparisonRaises(x)
        THEN [raised |-> "TypeError", value |-> ""]
        ELSE [raised |-> "none",
              value  |-> IF (IF rule.below THEN FLt(x.v, rule.bound)
                             ELSE FGt(x.v, rule.bound))
                         THEN rule.yes ELSE rule.no]
  ELSE
    LET confidence == CalculateAgentConfidence(agent, context)
    IN  IF confidence.raised # "none"
        THEN [raised |-> confidence.raised, value |-> ""]
        ELSE [raised |-> "none",
              value  |-> IF ~ FLt(confidence.value, <<7, 10>>) THEN "BUY"
                         ELSE IF ~ FLt(confidence.value, <<2, 5>>) THEN "HOLD"
                         ELSE "SELL"]

\* [raised, value]: the recommendation string
GenerateAgentRecommendation(agent, context) ==
  IF agent.name \in Personas
  THEN
    LET rule == PersonaRule(agent.name)
        x == DictGet(context, rule.key, rule.default)
    IN  IF ComparisonRaises(x)
        THEN [raised |-> "TypeError", value |-> ""]
        ELSE [raised |-> "none",
              value  |-> IF (IF rule.below THEN FLt(x.v, rule.bound)
                             ELSE FGt(x.v, rule.bound))
                         THEN rule.yes ELSE rule.no]
  ELSE
    LET confidence == CalculateAgentConfidence(agent, context)
    IN  IF confidence.raised # "none"
        THEN [raised |-> confidence.raised, value |-> ""]
        ELSE [raised |-> "none",
              value  |-> IF FGt(confidence.value, <<7, 10>>) THEN "BUY"
                         ELSE IF FGt(confidence.value, <<2, 5>>) THEN "HOLD"
                         ELSE "SELL"]

\* A decision whose vote weight is scaled by the agent's performance score
GetAgentDecisionByPerformance(agent, context, timestamp) ==
  LET decision_confidence == CalculateAgentConfidence(agent, context)
      recommendation == GenerateAgentRecommendation(agent, context)
  IN  IF decision_confidence.raised # "none"
      THEN [raised |-> decision_confidence.raised, value |-> <<>>]
      ELSE IF recommendation.raised # "none"
      THEN [raised |-> recommendation.raised, value |-> <<>>]
      ELSE [raised |-> "none",
            value  |-> <<[agent_id       |-> agent.id,
                          timestamp      |-> timestamp,
                          decision_type  |-> DictGet(context, "decision_type",
                                                     Str(<<"trading">>)),
                          recommendation |-> recommendation.value,
                          confidence     |-> decision_confidence.value,
                          vote_weight    |-> FMul(agent.vote_weight,
                                                  agent.performance_score)]>>]

\* [raised, value]: the AgentDecision (its reasoning text and supporting
\* data, which no computation reads, are left out)
GetAgentDecision(agent, context, timestamp) ==
  LET decision_confidence == CalculateAgentConfidence(agent, context)
      recommendation == GenerateAgentRecommendation(agent, context)
  IN  IF decision_confidence.raised # "none"
      THEN [raised |-> decision_confidence.raised, value |-> <<>>]
      ELSE IF recommendation.raised # "none"
      THEN [raised |-> recommendation.raised, value |-> <<>>]
      ELSE [raised |-> "none",
            value  |-> <<[agent_id       |-> agent.id,
                          timestamp      |-> timestamp,
                          decision_type  |-> DictGet(context, "decision_type",
                                                     Str(<<"trading">>)),
                          recommendation |-> recommendation.value,
                          confidence     |-> decision_confidence.value,
                          vote_weight    |-> agent.vote_weight]>>]

---------------------------------------------------------------------------
(* Coordination: coordinate_decision_making.                               *)

\* An elicitation that does not read the active flag
ParticipatesAlways(agent) ==
  TRUE

\* if agent.active
Participates(agent) ==
  agent.active

\* The loop over self.agents.items(): the agents that take part, in the
\* registry's order.  The first decision that raises ends the call:
\* [raised, the decisions collected so far, the agent whose decision raised
\* (0 if none)]
CollectDecisionsOf(registry, context, timestamp) ==
  LET taking_part == SelectSeq(registry, Participates)
      elicited == List([k \in 1 .. Len(taking_part) |->
                          GetAgentDecision(taking_part[k], context, timestamp)])
      failing == {k \in 1 .. Len(taking_part) : elicited[k].raised # "none"}
  IN  IF failing = {}
      THEN [raised    |-> "none",
            decisions |-> List([k \in 1 .. Len(taking_part) |-> elicited[k].value[1]]),
            agent     |-> 0]
      ELSE
        LET first == CHOOSE k \in failing : \A j \in failing : k <= j
        IN  [raised    |-> elicited[first].raised,
             decisions |-> List([k \in 1 .. (first - 1) |-> elicited[k].value[1]]),
             agent     |-> taking_part[first].id]

\* The loop over the manager's own agents
CollectDecisions(context, timestamp) ==
  CollectDecisionsOf(agents, context, timestamp)

\* AgentPerformanceTracker.record_coordination_session
SessionRecord(decisions, result, timestamp) ==
  [timestamp          |-> timestamp,
   decisions          |-> decisions,
   result             |-> result,
   consensus_strength |-> result.consensus_strength]

\* A coordination that puts the new session first in voting_sessions
CoordinatedNewestFirst(elicited) ==
  LET raised == IF elicited.raised # "none" THEN elicited.raised
                ELSE TallyRaises(elicited.decisions)
      voting_result == VotingResult(elicited.decisions, now, Len(voting_sessions) + 1)
  IN  [raised       |-> raised,
       failed_agent |-> elicited.agent,
       decisions    |-> elicited.decisions,
       result       |-> IF raised = "none" THEN <<voting_result>> ELSE <<>>,
       voting_sessions |->
         IF raised = "none" THEN <<voting_result>> \o voting_sessions
         ELSE voting_sessions,
       coordination_sessions |->
         IF raised = "none"
         THEN Append(coordination_sessions,
                     SessionRecord(elicited.decisions, voting_result, now))
         ELSE coordination_sessions]

\* A coordination that tallies the decisions collected before an agent's
\* decision raised
CoordinatedOverCollected(elicited) ==
  LET raised == TallyRaises(elicited.decisions)
      voting_result == VotingResult(elicited.decisions, now, Len(voting_sessions) + 1)
  IN  [raised       |-> raised,
       failed_agent |-> elicited.agent,
       decisions    |-> elicited.decisions,
       result       |-> IF raised = "none" THEN <<voting_result>> ELSE <<>>,
       voting_sessions |->
         IF raised = "none" THEN Append(voting_sessions, voting_result)
         ELSE voting_sessions,
       coordination_sessions |->
         IF raised = "none"
         THEN Append(coordination_sessions,
                     SessionRecord(elicited.decisions, voting_result, now))
         ELSE coordination_sessions]

\* The tally and the two appends that follow the loop, for the outcome of
\* the loop: what the call raises, its result if it returns, and the two
\* histories as it leaves them
Coordinated(elicited) ==
  LET raised == IF elicited.raised # "none" THEN elicited.raised
                ELSE TallyRaises(elicited.decisions)
      voting_result == VotingResult(elicited.decisions, now, Len(voting_sessions) + 1)
  IN  [raised       |-> raised,
       failed_agent |-> elicited.agent,
       decisions    |-> elicited.decisions,
       result       |-> IF raised = "none" THEN <<voting_result>> ELSE <<>>,
       voting_sessions |->
         IF raised = "none" THEN Append(voting_sessions, voting_result)
         ELSE voting_sessions,
       coordination_sessions |->
         IF raised = "none"
         THEN Append(coordination_sessions,
                     SessionRecord(elicited.decisions, voting_result, now))
         ELSE coordination_sessions]

\* A coordination that keeps the confidence it elicited in the agent
CoordinateDecisionMakingAdjusting(context) ==
  \E elicited \in {CollectDecisions(context, now)} :
    \E done \in {Coordinated(elicited)} :
      /\ agents' =
           List([i \in 1 .. Len(agents) |->
                   LET mine == {k \in 1 .. Len(done.decisions) :
                                  done.decisions[k].agent_id = i}
                   IN  IF mine = {} THEN agents[i]
                       ELSE [agents[i] EXCEPT !.confidence_level =
                               done.decisions[CHOOSE k \in mine : TRUE].confidence]])
      /\ voting_sessions' = done.voting_sessions
      /\ coordination_sessions' = done.coordination_sessions
      /\ last' = [op           |-> "coordinate_decision_making",
                  context      |-> context,
                  raised       |-> done.raised,
                  failed_agent |-> done.failed_agent,
                  decisions    |-> done.decisions,
                  result       |-> done.result]
      /\ UNCHANGED <<agent_registry, performance_history, now,
                 threads, binance_client>>

CoordinateDecisionMaking(context) ==
  \E elicited \in {CollectDecisions(context, now)} :
    \E done \in {Coordinated(elicited)} :
      /\ voting_sessions' = done.voting_sessions
      /\ coordination_sessions' = done.coordination_sessions
      /\ last' = [op           |-> "coordinate_decision_making",
                  context      |-> context,
                  raised       |-> done.raised,
                  failed_agent |-> done.failed_agent,
                  decisions    |-> done.decisions,
                  result       |-> done.result]
      /\ UNCHANGED <<agents, agent_registry, performance_history, now,
                 threads, binance_client>>

---------------------------------------------------------------------------
(* The route /coordinate-decision of api/ai_firm_routes.py, for a          *)
(* deployment whose components were imported (AI_FIRM_READY).              *)

\* The defaults of default_context
RouteDefaults ==
  ("decision_type" :> Str(<<"trading">>)) @@ ("symbol" :> Str(<<"SPY">>))
    @@ ("market_type" :> Str(<<"equity">>)) @@ ("volatility" :> Num(3, 20))
    @@ ("market_trend" :> Str(<<"neutral">>)) @@ ("risk_score" :> Num(2, 5))

\* default_context: the six keys, each from the request or its default
DefaultContext(request) ==
  [k \in DOMAIN RouteDefaults |-> DictGet(request, k, RouteDefaults[k])]

\* The confidence of the decision ceo.make_strategic_decision returns.  The
\* CEO module is not among the sources; its review computes the confidence
\* from the policy context on its own, so that any of these may come back
StrategicConfidences ==
  {<<1, 2>>, <<3, 5>>, <<9, 10>>}

\* 'execution_approved': ceo_decision.confidence > 0.6
ExecutionApproved(coordination_result, confidence) ==
  FGt(confidence, <<3, 5>>)

\* 'final_recommendation': coordination_result['winning_recommendation']
FinalRecommendation(coordination_result, confidence) ==
  coordination_result.winning_recommendation

\* coordinate_decision: the coordination, the review, and the response; an
\* exception of either is answered with status 'error'
CoordinateDecision(request, confidence) ==
  \E elicited \in {CollectDecisions(DefaultContext(request), now)} :
    \E done \in {Coordinated(elicited)} :
      /\ voting_sessions' = done.voting_sessions
      /\ coordination_sessions' = done.coordination_sessions
      /\ last' =
           IF done.raised # "none"
           THEN [op |-> "coordinate_decision", request |-> request,
                 raised |-> "none", status |-> "error", message |-> done.raised]
           ELSE [op |-> "coordinate_decision", request |-> request,
                 raised |-> "none", status |-> "success",
                 agent_coordination   |-> done.result[1],
                 ceo_confidence       |-> confidence,
                 final_recommendation |-> FinalRecommendation(done.result[1], confidence),
                 execution_approved   |-> ExecutionApproved(done.result[1], confidence)]
      /\ UNCHANGED <<agents, agent_registry, performance_history, now,
                 threads, binance_client>>

---------------------------------------------------------------------------
(* Outcome feedback: update_agent_performance and the tracker's record.    *)

\* A moving average with its two weights swapped
UpdatedScoreSwapped(performance_score, learning_rate, new_score) ==
  FAdd(FMul(performance_score, learning_rate),
       FMul(new_score, FSub(One, learning_rate)))

\* performance_score * (1 - learning_rate) + new_score * learning_rate
UpdatedScore(performance_score, learning_rate, new_score) ==
  FAdd(FMul(performance_score, FSub(One, learning_rate)),
       FMul(new_score, learning_rate))

\* An adjustment whose bands include their bounds
AdjustedConfidenceInclusive(confidence_level, accuracy) ==
  IF ~ FLt(accuracy, <<4, 5>>)
  THEN FMin(One, FMul(confidence_level, <<21, 20>>))
  ELSE IF ~ FGt(accuracy, <<3, 10>>)
  THEN FMax(<<1, 10>>, FMul(confidence_level, <<19, 20>>))
  ELSE confidence_level

\* An adjustment that multiplies without min() and max()
AdjustedConfidenceUnbounded(confidence_level, accuracy) ==
  IF FGt(accuracy, <<4, 5>>) THEN FMul(confidence_level, <<21, 20>>)
  ELSE IF FLt(accuracy, <<3, 10>>) THEN FMul(confidence_level, <<19, 20>>)
  ELSE confidence_level

\* The confidence adjustment, for a numeric accuracy
AdjustedConfidence(confidence_level, accuracy) ==
  IF FGt(accuracy, <<4, 5>>)
  THEN FMin(One, FMul(confidence_level, <<21, 20>>))
  ELSE IF FLt(accuracy, <<3, 10>>)
  THEN FMax(<<1, 10>>, FMul(confidence_level, <<19, 20>>))
  ELSE confidence_level

\* AgentPerformanceTracker.record_agent_performance
RecordAgentPerformance(history, agent_id, performance_data, timestamp) ==
  LET h == IF agent_id \in DOMAIN history THEN history
           ELSE DictSet(history, agent_id, <<>>)
  IN  [h EXCEPT ![agent_id] =
         Append(@, [timestamp |-> timestamp, data |-> performance_data])]

\* An update by which the decisions recorded for the agent follow the
\* agent's confidence, as they would if a decision referred to the agent
UpdateAgentPerformanceRetroactive(agent_id, performance_data) ==
  IF agent_id \notin AgentIds
  THEN /\ last' = [op |-> "update_agent_performance", agent_id |-> agent_id,
                   performance_data |-> performance_data, raised |-> "none",
                   known |-> FALSE, before |-> <<>>]
       /\ UNCHANGED <<agents, agent_registry, voting_sessions,
                      performance_history, coordination_sessions, now,
                 threads, binance_client>>
  ELSE
    LET agent == agents[agent_id]
        new_score == DictGet(performance_data, "score",
                             [t |-> "num", v |-> agent.performance_score])
        accuracy == DictGet(performance_data, "accuracy", Num(1, 2))
        raised == IF new_score.t # "num" \/ accuracy.t # "num"
                  THEN "TypeError" ELSE "none"
        scored == IF new_score.t # "num" THEN agent
                  ELSE [agent EXCEPT !.performance_score =
                          UpdatedScore(agent.performance_score, agent.learning_rate,
                                       new_score.v)]
        adjusted == IF raised # "none" THEN scored
                    ELSE [scored EXCEPT !.confidence_level =
                            AdjustedConfidence(agent.confidence_level, accuracy.v)]
        following(decisions) ==
          List([k \in 1 .. Len(decisions) |->
                  IF decisions[k].agent_id = agent_id
                  THEN [decisions[k] EXCEPT !.confidence = adjusted.confidence_level]
                  ELSE decisions[k]])
    IN  /\ agents' = [agents EXCEPT ![agent_id] = adjusted]
        /\ performance_history' =
             IF raised = "none"
             THEN RecordAgentPerformance(performance_history, agent_id,
                                         performance_data, now)
             ELSE performance_history
        /\ coordination_sessions' =
             List([s \in 1 .. Len(coordination_sessions) |->
                     [coordination_sessions[s] EXCEPT
                        !.decisions = following(coordination_sessions[s].decisions)]])
        /\ last' = [op |-> "update_agent_performance", agent_id |-> agent_id,
                    performance_data |-> performance_data, raised |-> raised,
                    known |-> TRUE, before |-> <<agent>>]
        /\ UNCHANGED <<agent_registry, voting_sessions, now,
                 threads, binance_client>>

\* An unknown agent id is skipped without an error.  A score that is no
\* number raises before anything is written; an accuracy that is no number
\* raises after the performance score has been written
UpdateAgentPerformance(agent_id, performance_data) ==
  IF agent_id \notin AgentIds
  THEN /\ last' = [op |-> "update_agent_performance", agent_id |-> agent_id,
                   performance_data |-> performance_data, raised |-> "none",
                   known |-> FALSE, before |-> <<>>]
       /\ UNCHANGED <<agents, agent_registry, voting_sessions,
                      performance_history, coordination_sessions, now,
                 threads, binance_client>>
  ELSE
    LET agent == agents[agent_id]
        new_score == DictGet(performance_data, "score",
                             [t |-> "num", v |-> agent.performance_score])
        accuracy == DictGet(performance_data, "accuracy", Num(1, 2))
        raised == IF new_score.t # "num" \/ accuracy.t # "num"
                  THEN "TypeError" ELSE "none"
        scored == IF new_score.t # "num" THEN agent
                  ELSE [agent EXCEPT !.performance_score =
                          UpdatedScore(agent.performance_score, agent.learning_rate,
                                       new_score.v)]
        adjusted == IF raised # "none" THEN scored
                    ELSE [scored EXCEPT !.confidence_level =
                            AdjustedConfidence(agent.confidence_level, accuracy.v)]
    IN  /\ agents' = [agents EXCEPT ![agent_id] = adjusted]
        /\ performance_history' =
             IF raised = "none"
             THEN RecordAgentPerformance(performance_history, agent_id,
                                         performance_data, now)
             ELSE performance_history
        /\ last' = [op |-> "update_agent_performance", agent_id |-> agent_id,
                    performance_data |-> performance_data, raised |-> raised,
                    known |-> TRUE, before |-> <<agent>>]
        /\ UNCHANGED <<agent_registry, voting_sessions, coordination_sessions, now,
                 threads, binance_client>>

---------------------------------------------------------------------------
(* Queries: get_agent_performance and get_agent_status.                    *)

\* The summary of an agent without records in the window
NoRecords ==
  [performance_records |-> 0, average_score |-> Zero]

\* r['data'].get('score', 0.5) for each of the records
ScoresOf(records) ==
  List([k \in 1 .. Len(records) |-> DictGet(records[k].data, "score", Num(1, 2))])

\* timedelta(days=7), the default window
DefaultDays ==
  7

\* A trend that compares the latest score with the one before it
TrendOfLastTwo(scores) ==
  IF Len(scores) > 1 /\ FGt(scores[Len(scores)], scores[Len(scores) - 1])
  THEN "improving" ELSE "stable"

\* 'improving' if len(scores) > 1 and scores[-1] > scores[0] else 'stable'
Trend(scores) ==
  IF Len(scores) > 1 /\ FGt(scores[Len(scores)], scores[1])
  THEN "improving" ELSE "stable"

\* r['timestamp'] > cutoff_date, for cutoff_date = datetime.now() - days
InWindow(timestamp, clock, days) ==
  timestamp > clock - days

\* AgentPerformanceTracker.get_agent_performance at time clock: [raised,
\* value].  sum() raises TypeError on a score that is no number
GetAgentPerformance(history, agent_id, days, clock) ==
  IF agent_id \notin DOMAIN history
  THEN [raised |-> "none", value |-> <<NoRecords>>]
  ELSE
    LET recent_records ==
          SelectSeq(history[agent_id], LAMBDA r : InWindow(r.timestamp, clock, days))
        scores == ScoresOf(recent_records)
        numbers == List([k \in 1 .. Len(scores) |-> scores[k].v])
    IN  IF recent_records = <<>>
        THEN [raised |-> "none", value |-> <<NoRecords>>]
        ELSE IF \E k \in 1 .. Len(scores) : scores[k].t # "num"
        THEN [raised |-> "TypeError", value |-> <<>>]
        ELSE [raised |-> "none",
              value  |-> <<[performance_records |-> Len(recent_records),
                            average_score |-> FDiv(SumRange(numbers, 1, Len(numbers)),
                                                   <<Len(numbers), 1>>),
                            latest_score  |-> numbers[Len(numbers)],
                            trend         |-> Trend(numbers)]>>]

\* The values of DepartmentType, in the order of the enum
Departments ==
  <<"market_intelligence", "trade_operations", "risk_control",
    "performance_lab", "communications">>

\* AgentManager._get_single_agent_status (the personality summary, a text
\* that nothing reads, is left out)
GetSingleAgentStatus(agent) ==
  [name               |-> agent.name,
   role               |-> agent.role,
   department         |-> agent.department,
   active             |-> agent.active,
   confidence_level   |-> agent.confidence_level,
   performance_score  |-> agent.performance_score,
   expertise_areas    |-> agent.expertise_areas,
   recent_performance |->
     GetAgentPerformance(performance_history, agent.id, DefaultDays, now).value,
   vote_weight        |-> agent.vote_weight,
   created_at         |-> agent.created_at]

\* A listing that leaves out the agents that are not active
GetAgentStatusOfActive(agent_name) ==
  IF agent_name # ""
  THEN IF agent_name \in DOMAIN agent_registry
            /\ agent_registry[agent_name] \in AgentIds
       THEN [status |-> <<GetSingleAgentStatus(agents[agent_registry[agent_name]])>>]
       ELSE [error |-> agent_name]
  ELSE [status |->
          [dept \in {Departments[k] : k \in 1 .. Len(Departments)} |->
             LET members == SelectSeq(agents,
                                      LAMBDA a : a.department = dept /\ a.active)
             IN  List([k \in 1 .. Len(members) |-> GetSingleAgentStatus(members[k])])]]

\* AgentManager.get_agent_status: the status of the agent of that name, an
\* error dict for a name the registry does not know, or, for no name, the
\* statuses of all agents by department
GetAgentStatus(agent_name) ==
  IF agent_name # ""
  THEN IF agent_name \in DOMAIN agent_registry
            /\ agent_registry[agent_name] \in AgentIds
       THEN [status |-> <<GetSingleAgentStatus(agents[agent_registry[agent_name]])>>]
       ELSE [error |-> agent_name]
  ELSE [status |->
          [dept \in {Departments[k] : k \in 1 .. Len(Departments)} |->
             LET members == SelectSeq(agents, LAMBDA a : a.department = dept)
             IN  List([k \in 1 .. Len(members) |-> GetSingleAgentStatus(members[k])])]]

\* A call of get_agent_performance: a read
AgentPerformanceQuery(agent_id, days) ==
  LET answer == GetAgentPerformance(performance_history, agent_id, days, now)
  IN  /\ last' = [op |-> "get_agent_performance", agent_id |-> agent_id,
                  days |-> days, raised |-> answer.raised, result |-> answer.value]
      /\ UNCHANGED <<agents, agent_registry, voting_sessions, performance_history,
                     coordination_sessions, now,
                 threads, binance_client>>

\* A call of get_agent_status: a read
AgentStatusQuery(agent_name) ==
  /\ last' = [op |-> "get_agent_status", agent_name |-> agent_name,
              raised |-> "none", result |-> GetAgentStatus(agent_name)]
  /\ UNCHANGED <<agents, agent_registry, voting_sessions, performance_history,
                 coordination_sessions, now,
                 threads, binance_client>>

---------------------------------------------------------------------------
(* The active flag.  The program has no operation that writes Agent.active;*)
(* its owner sets the field of the agents it chooses between two calls.    *)

SetActive(ids, flag) ==
  /\ agents' = List([i \in 1 .. Len(agents) |->
                       IF i \in ids THEN [agents[i] EXCEPT !.active = flag]
                       ELSE agents[i]])
  /\ last' = [op |-> "set_active", ids |-> ids, flag |-> flag, raised |-> "none"]
  /\ UNCHANGED <<agent_registry, voting_sessions, performance_history,
                 coordination_sessions, now,
                 threads, binance_client>>

---------------------------------------------------------------------------
(* The calls a run makes, and their inputs.                                *)

\* The most decisions the hand-built lists of one run hold in all
MaxVotes ==
  3

\* The most sessions coordinate_decision_making returns in one run
MaxSessions ==
  2

\* The most outcomes one run records when it only records outcomes
MaxOutcomes ==
  3

\* The most outcomes one run records between its coordinations
MaxFeedback ==
  1

Recommendations ==
  {"BUY", "SELL", "HOLD"}

\* Vote weight and confidence of a hand-built decision
Votes ==
  { [vote_weight |-> <<1, 1>>, confidence |-> <<9, 10>>],
    [vote_weight |-> <<4, 5>>, confidence |-> <<1, 2>>],
    [vote_weight |-> <<3, 5>>, confidence |-> <<1, 2>>],
    [vote_weight |-> <<2, 5>>, confidence |-> <<1, 2>>] }

\* A decision of confidence 0 weighs nothing
ZeroVote ==
  [vote_weight |-> <<1, 1>>, confidence |-> <<0, 1>>]

\* The decisions a hand-built list is made of
VoteOptions ==
  (Recommendations \X Votes) \cup {<<"HOLD", ZeroVote>>}

\* The list of AgentDecision a caller builds from recommendations and votes
HandBuilt(choice) ==
  List([i \in 1 .. Len(choice) |->
          [agent_id       |-> i,
           timestamp      |-> now,
           decision_type  |-> Str(<<"trading">>),
           recommendation |-> choice[i][1],
           confidence     |-> choice[i][2].confidence,
           vote_weight    |-> choice[i][2].vote_weight]])

RECURSIVE VotesIn(_)
VotesIn(sessions) ==
  IF sessions = <<>> THEN 0
  ELSE Head(sessions).total_votes + VotesIn(Tail(sessions))

\* A direct call of the tally with a hand-built list
TallyCall ==
  \E n \in 0 .. (MaxVotes - VotesIn(voting_sessions)) :
    \E choice \in [1 .. n -> VoteOptions] :
      ConductVotingSession(HandBuilt(choice))

TallyNext ==
  TallyCall

SpecTally ==
  Init /\ [][TallyNext]_vars

---------------------------------------------------------------------------
(* Outcome feedback alone.                                                 *)

\* Warren, Quant, and an id no agent has
FeedbackIds ==
  {1, 3, Len(FirmTable) + 1}

\* performance_data: no keys; the default score at the upper accuracy bound;
\* a good outcome; a bad one; the lower accuracy bound; a score out of range;
\* an accuracy that is not known
Outcomes ==
  { EmptyDict,
    ("score" :> Num(3, 4)) @@ ("accuracy" :> Num(4, 5)),
    ("score" :> Num(1, 1)) @@ ("accuracy" :> Num(9, 10)),
    ("score" :> Num(0, 1)) @@ ("accuracy" :> Num(1, 5)),
    ("score" :> Num(1, 2)) @@ ("accuracy" :> Num(3, 10)),
    ("score" :> Num(5, 1)) @@ ("accuracy" :> Num(1, 2)),
    ("score" :> Num(1, 1)) @@ ("accuracy" :> None) }

RECURSIVE RecordsIn(_, _)
RecordsIn(history, ids) ==
  IF ids = {} THEN 0
  ELSE LET a == CHOOSE x \in ids : TRUE
       IN  Len(history[a]) + RecordsIn(history, ids \ {a})

OutcomesRecorded ==
  RecordsIn(performance_history, DOMAIN performance_history)

\* A run records outcomes one after the other and ends at the first call
\* that raises
OutcomeCall ==
  /\ OutcomesRecorded < MaxOutcomes
  /\ last.raised = "none"
  /\ \E agent_id \in FeedbackIds, performance_data \in Outcomes :
       UpdateAgentPerformance(agent_id, performance_data)

OutcomeNext ==
  OutcomeCall

SpecOutcome ==
  Init /\ [][OutcomeNext]_vars

---------------------------------------------------------------------------
(* Outcomes recorded over some days, and the summaries asked for.          *)

\* The most days that pass in one run
MaxClock ==
  2

\* datetime.now() moves on by a day
Tick ==
  /\ now < MaxClock
  /\ now' = now + 1
  /\ last' = [op |-> "clock", raised |-> "none"]
  /\ UNCHANGED <<agents, agent_registry, voting_sessions, performance_history,
                 coordination_sessions,
                 threads, binance_client>>

\* Outcomes with a low score, with a high one, and without a score
Scored ==
  { ("score" :> Num(1, 5)), ("score" :> Num(9, 10)), EmptyDict }

\* The windows asked for: one day, and the default
Windows ==
  {1, DefaultDays}

RecordCall ==
  /\ OutcomesRecorded < MaxOutcomes
  /\ \E performance_data \in Scored : UpdateAgentPerformance(1, performance_data)

\* Summaries of Warren, of Cathie and of an id no agent has
SummaryCall ==
  \E agent_id \in {1, 2, Len(FirmTable) + 1}, days \in Windows :
    AgentPerformanceQuery(agent_id, days)

HistoryNext ==
  \/ RecordCall
  \/ Tick
  \/ SummaryCall

SpecHistory ==
  Init /\ [][HistoryNext]_vars

---------------------------------------------------------------------------
(* Requests to /coordinate-decision, with the agents that have no rule of  *)
(* their own switched off and on.                                          *)

\* The request bodies: empty; a falling, volatile market; a volatility
\* that is a string
Requests ==
  { EmptyDict,
    ("market_trend" :> Str(<<"bearish">>)) @@ ("volatility" :> Num(1, 2)),
    ("volatility" :> Str(<<"high">>)) }

\* The agents that answer by the default rule
Generalists ==
  {i \in 1 .. Len(FirmTable) : FirmTable[i].name \notin Personas}

ReviewCall ==
  /\ Len(voting_sessions) < MaxSessions
  /\ \E request \in Requests, confidence \in StrategicConfidences :
       CoordinateDecision(request, confidence)

StandDownCall ==
  \E flag \in BOOLEAN : SetActive(Generalists, flag)

ReviewNext ==
  \/ ReviewCall
  \/ StandDownCall

SpecReview ==
  Init /\ [][ReviewNext]_vars

---------------------------------------------------------------------------
(* Agents registered after construction.                                   *)

\* The most agents one run registers after construction
MaxRegistered ==
  2

\* A call of _create_agent with the arguments of row: it returns the agent
CreateAgentCall(row, learning_rate) ==
  LET st == CreateAgent([agents |-> agents, agent_registry |-> agent_registry],
                        row, learning_rate, now)
  IN  /\ agents' = st.agents
      /\ agent_registry' = st.agent_registry
      /\ last' = [op |-> "_create_agent", name |-> row.name, raised |-> "none",
                  existed |-> row.name \in DOMAIN agent_registry,
                  result |-> <<st.agents[Len(st.agents)]>>]
      /\ UNCHANGED <<voting_sessions, performance_history, coordination_sessions, now,
                 threads, binance_client>>

\* The arguments of a registration: those of Warren or of Alert_Coordinator,
\* under the name of Warren or under a name not yet taken
Registrations ==
  {[FirmTable[k] EXCEPT !.name = n] :
     k \in {1, Len(FirmTable)}, n \in {"Warren", "Newcomer"}}

RegisterCall ==
  /\ Len(agents) < Len(FirmTable) + MaxRegistered
  /\ \E row \in Registrations, k \in 1 .. Len(LearningRates) :
       CreateAgentCall(row, LearningRates[k])

RegistryNext ==
  RegisterCall

SpecRegistry ==
  Init /\ [][RegistryNext]_vars

---------------------------------------------------------------------------
(* The firm at work: coordinations, outcome feedback between them, and the *)
(* owner switching agents on and off.                                      *)

\* The request contexts: every key set, the market type naming the
\* expertise of Warren and of Macro_Monk, in a volatile market; a volatility
\* that is a string; a risk score that is null and nothing else, so that
\* every agent but Degen_Auditor decides on the defaults
Contexts ==
  { ("decision_type" :> Str(<<"rebalance">>))
      @@ ("market_type" :> Str(<<"risk_assessment", "macro_analysis">>))
      @@ ("volatility" :> Num(1, 2)) @@ ("pe_ratio" :> Num(10, 1))
      @@ ("innovation_score" :> Num(4, 5)) @@ ("technical_score" :> Num(7, 10))
      @@ ("risk_score" :> Num(1, 5)),
    ("volatility" :> Str(<<"high">>)),
    ("risk_score" :> None) }

\* The agents the owner switches together: all of them, or Degen_Auditor
ToggleSets ==
  {1 .. Len(FirmTable), {10}}

\* A good outcome
Feedback ==
  { ("score" :> Num(1, 1)) @@ ("accuracy" :> Num(9, 10)) }

CoordinateCall ==
  /\ Len(voting_sessions) < MaxSessions
  /\ \E context \in Contexts : CoordinateDecisionMaking(context)

FeedbackCall ==
  /\ OutcomesRecorded < MaxFeedback
  /\ \E performance_data \in Feedback : UpdateAgentPerformance(1, performance_data)

SetActiveCall ==
  \E ids \in ToggleSets, flag \in BOOLEAN : SetActive(ids, flag)

\* Warren, and no name
StatusNames ==
  {"Warren", ""}

StatusCall ==
  \E agent_name \in StatusNames : AgentStatusQuery(agent_name)

PerformanceCall ==
  AgentPerformanceQuery(1, DefaultDays)

Next ==
  \/ CoordinateCall
  \/ FeedbackCall
  \/ SetActiveCall
  \/ StatusCall
  \/ PerformanceCall

Spec ==
  Init /\ [][Next]_vars

---------------------------------------------------------------------------
(* Elicitation from the firm and from agents of low confidence registered  *)
(* after construction.                                                     *)

\* The agents registered: a risk-averse analyst of the lowest confidence, a
\* risk-averse specialist on the bound of the default rule's upper band, an
\* analyst on the bound of its lower band
Recruits ==
  { [name |-> "Cautious", role |-> "analyst", department |-> "risk_control",
     personality |-> ("risk_aversion" :> <<4, 5>>),
     expertise |-> <<"tail_risk">>, base_confidence |-> <<1, 10>>],
    [name |-> "Steady", role |-> "specialist", department |-> "risk_control",
     personality |-> ("risk_aversion" :> <<1, 2>>),
     expertise |-> <<"tail_risk">>, base_confidence |-> <<7, 10>>],
    [name |-> "Doubter", role |-> "analyst", department |-> "performance_lab",
     personality |-> ("skepticism" :> <<9, 10>>),
     expertise |-> <<"benchmarking">>, base_confidence |-> <<2, 5>>] }

\* The contexts: a volatile market whose type names expertise of
\* Trade_Executor and of Warren; a volatility of 0.3 in a market whose type
\* names expertise of the recruits; no keys; a volatile market of the
\* default type
ElicitContexts ==
  { ("market_type" :> Str(<<"order_execution", "value_investing">>))
      @@ ("volatility" :> Num(1, 2)),
    ("market_type" :> Str(<<"tail_risk">>)) @@ ("volatility" :> Num(3, 10)),
    EmptyDict,
    ("volatility" :> Num(2, 5)) }

ElicitCall ==
  /\ Len(voting_sessions) < MaxSessions
  /\ \E context \in ElicitContexts : CoordinateDecisionMaking(context)

EnrolCall ==
  /\ Len(agents) < Len(FirmTable) + MaxRegistered
  /\ \E row \in Recruits :
       /\ row.name \notin DOMAIN agent_registry
       /\ CreateAgentCall(row, LearningRates[1])

ElicitNext ==
  \/ ElicitCall
  \/ EnrolCall

SpecElicit ==
  Init /\ [][ElicitNext]_vars

---------------------------------------------------------------------------
(* update_agent_performance called from two request threads at once.  The  *)
(* method takes no lock, and the interpreter may switch threads between    *)
(* any two of its reads and writes of shared state; each action below is   *)
(* one such read or write by the thread t.                                 *)

\* The call begins: line 470 finds the agent, or the call returns
BeginUpdate(t, agent_id, performance_data) ==
  /\ threads[t].pc = "idle"
  /\ threads' = [threads EXCEPT ![t] =
                   [pc |-> IF agent_id \in AgentIds THEN "474" ELSE "done",
                    agent_id |-> agent_id, performance_data |-> performance_data,
                    raised |-> "none"]]
  /\ last' = [op |-> "thread", thread |-> t, raised |-> "none"]
  /\ UNCHANGED <<agents, agent_registry, voting_sessions, performance_history,
                 coordination_sessions, now,
                 binance_client>>

\* Line 474: new_score, the default read from the agent
ReadNewScore(t) ==
  LET th == threads[t]
      new_score == DictGet(th.performance_data, "score",
                           [t |-> "num", v |-> agents[th.agent_id].performance_score])
  IN  /\ th.pc = "474"
      /\ threads' = [threads EXCEPT ![t] =
                       [th EXCEPT !.pc = "476"] @@ [new_score |-> new_score]]
      /\ last' = [op |-> "thread", thread |-> t, raised |-> "none"]
      /\ UNCHANGED <<agents, agent_registry, voting_sessions, performance_history,
                     coordination_sessions, now,
                 binance_client>>

\* Lines 476-477: the right-hand side, computed from the score read now
ReadPerformanceScore(t) ==
  LET th == threads[t]
      agent == agents[th.agent_id]
  IN  /\ th.pc = "476"
      /\ threads' =
           [threads EXCEPT ![t] =
              IF th.new_score.t # "num"
              THEN [th EXCEPT !.pc = "done", !.raised = "TypeError"]
              ELSE [th EXCEPT !.pc = "475"]
                     @@ [value |-> UpdatedScore(agent.performance_score,
                                                agent.learning_rate, th.new_score.v)]]
      /\ last' = [op |-> "thread", thread |-> t, raised |-> "none"]
      /\ UNCHANGED <<agents, agent_registry, voting_sessions, performance_history,
                     coordination_sessions, now,
                 binance_client>>

\* Line 475: the assignment to agent.performance_score
WritePerformanceScore(t) ==
  LET th == threads[t]
  IN  /\ th.pc = "475"
      /\ agents' = [agents EXCEPT ![th.agent_id].performance_score = th.value]
      /\ threads' = [threads EXCEPT ![t].pc = "481"]
      /\ last' = [op |-> "thread", thread |-> t, raised |-> "none"]
      /\ UNCHANGED <<agent_registry, voting_sessions, performance_history,
                     coordination_sessions, now,
                 binance_client>>

\* Lines 481-484: the test of the accuracy and the right-hand side of the
\* branch taken, computed from the confidence read now
ReadConfidenceLevel(t) ==
  LET th == threads[t]
      accuracy == DictGet(th.performance_data, "accuracy", Num(1, 2))
      confidence_level == agents[th.agent_id].confidence_level
  IN  /\ th.pc = "481"
      /\ threads' =
           [threads EXCEPT ![t] =
              IF accuracy.t # "num"
              THEN [th EXCEPT !.pc = "done", !.raised = "TypeError"]
              ELSE IF FGt(accuracy.v, <<4, 5>>) \/ FLt(accuracy.v, <<3, 10>>)
              THEN [th EXCEPT !.pc = "482",
                              !.value = AdjustedConfidence(confidence_level, accuracy.v)]
              ELSE [th EXCEPT !.pc = "499"]]
      /\ last' = [op |-> "thread", thread |-> t, raised |-> "none"]
      /\ UNCHANGED <<agents, agent_registry, voting_sessions, performance_history,
                     coordination_sessions, now,
                 binance_client>>

\* Line 482 or 484: the assignment to agent.confidence_level
WriteConfidenceLevel(t) ==
  LET th == threads[t]
  IN  /\ th.pc = "482"
      /\ agents' = [agents EXCEPT ![th.agent_id].confidence_level = th.value]
      /\ threads' = [threads EXCEPT ![t].pc = "499"]
      /\ last' = [op |-> "thread", thread |-> t, raised |-> "none"]
      /\ UNCHANGED <<agent_registry, voting_sessions, performance_history,
                     coordination_sessions, now,
                 binance_client>>

\* Line 499: if agent_id not in self.performance_history
TestHistory(t) ==
  LET th == threads[t]
  IN  /\ th.pc = "499"
      /\ threads' = [threads EXCEPT ![t].pc =
                       IF th.agent_id \in DOMAIN performance_history
                       THEN "507" ELSE "500"]
      /\ last' = [op |-> "thread", thread |-> t, raised |-> "none"]
      /\ UNCHANGED <<agents, agent_registry, voting_sessions, performance_history,
                     coordination_sessions, now,
                 binance_client>>

\* Line 500: self.performance_history[agent_id] = []
NewHistory(t) ==
  LET th == threads[t]
  IN  /\ th.pc = "500"
      /\ performance_history' = DictSet(performance_history, th.agent_id, <<>>)
      /\ threads' = [threads EXCEPT ![t].pc = "507"]
      /\ last' = [op |-> "thread", thread |-> t, raised |-> "none"]
      /\ UNCHANGED <<agents, agent_registry, voting_sessions,
                     coordination_sessions, now,
                 binance_client>>

\* Lines 502-507: the record is appended and the call returns
AppendRecord(t) ==
  LET th == threads[t]
  IN  /\ th.pc = "507"
      /\ performance_history' =
           RecordAgentPerformance(performance_history, th.agent_id,
                                  th.performance_data, now)
      /\ threads' = [threads EXCEPT ![t].pc = "done"]
      /\ last' = [op |-> "thread", thread |-> t, raised |-> "none"]
      /\ UNCHANGED <<agents, agent_registry, voting_sessions,
                     coordination_sessions, now,
                 binance_client>>

\* The outcomes the two requests carry: a good one, a bad one, one of a
\* middling accuracy
ThreadOutcomes ==
  { ("score" :> Num(1, 1)) @@ ("accuracy" :> Num(9, 10)),
    ("score" :> Num(0, 1)) @@ ("accuracy" :> Num(1, 5)),
    ("score" :> Num(1, 2)) @@ ("accuracy" :> Num(1, 2)) }

\* Each thread serves one request, for Warren
BeginCall ==
  \E t \in Threads, performance_data \in ThreadOutcomes :
    BeginUpdate(t, 1, performance_data)

ThreadsNext ==
  \/ BeginCall
  \/ \E t \in Threads : ReadNewScore(t)
  \/ \E t \in Threads : ReadPerformanceScore(t)
  \/ \E t \in Threads : WritePerformanceScore(t)
  \/ \E t \in Threads : ReadConfidenceLevel(t)
  \/ \E t \in Threads : WriteConfidenceLevel(t)
  \/ \E t \in Threads : TestHistory(t)
  \/ \E t \in Threads : NewHistory(t)
  \/ \E t \in Threads : AppendRecord(t)

SpecThreads ==
  Init /\ [][ThreadsNext]_vars

---------------------------------------------------------------------------
(* The route /place_order of api/trading_routes.py and the orders sent to  *)
(* it.                                                                     *)

\* place_order: a request without symbol, order type or quantity (a
\* quantity of 0 counts as none) is answered 400; so is a ValueError of the
\* client; any other exception is answered 500
PlaceOrderRoute(data) ==
  LET placed == ServicePlaceOrder(binance_client, data.symbol, data.order_type,
                                  data.quantity, data.price)
      missing == data.symbol = "" \/ data.order_type = "" \/ data.quantity = Zero
  IN  /\ binance_client' = IF missing THEN binance_client ELSE placed.client
      /\ last' = [op |-> "place_order", data |-> data, raised |-> "none",
                  requests |-> IF last.op = "place_order" THEN last.requests + 1 ELSE 1,
                  before |-> binance_client,
                  status |-> IF missing THEN 400
                             ELSE IF placed.raised = "ValueError" THEN 400
                             ELSE IF placed.raised # "none" THEN 500
                             ELSE 200,
                  accepted |-> ~ missing,
                  result |-> IF missing THEN "" ELSE placed.result.status]
      /\ UNCHANGED <<agents, agent_registry, voting_sessions, performance_history,
                     coordination_sessions, now, threads>>

\* The most orders one run sends
MaxOrders ==
  2

\* The quantities ordered: one unit; more BTC than the account can pay; a
\* negative quantity; none
Quantities ==
  {<<1, 1>>, <<4, 1>>, <<-1, 1>>, Zero}

\* The request bodies: market orders (no price) and limit orders
Orders ==
  [symbol : {"BTC", "AAPL"}, order_type : {"BUY", "sell"},
   quantity : Quantities, price : {<<>>, <<<<100, 1>>>>}]

OrderCall ==
  /\ last.op = "place_order" => last.requests < MaxOrders
  /\ \E data \in Orders : PlaceOrderRoute(data)

ExchangeNext ==
  OrderCall

SpecExchange ==
  Init /\ [][ExchangeNext]_vars

---------------------------------------------------------------------------
(* Properties of the tally, of coordination and of outcome feedback.       *)

RatLess(x, y) ==
  x[1] * y[2] < y[1] * x[2]

\* The weight a list of decisions gives a recommendation: the sum, over
\* the decisions that recommend it, of vote_weight * confidence
RECURSIVE AccumulatedWeight(_, _)
AccumulatedWeight(decisions, r) ==
  IF decisions = <<>> THEN Zero
  ELSE LET n == Len(decisions)
           d == decisions[n]
           rest == AccumulatedWeight(SubSeq(decisions, 1, n - 1), r)
       IN  IF d.recommendation = r
           THEN FAdd(rest, FMul(d.vote_weight, d.confidence))
           ELSE rest

RECURSIVE TotalWeight(_)
TotalWeight(decisions) ==
  IF decisions = <<>> THEN Zero
  ELSE FAdd(FMul(Head(decisions).vote_weight, Head(decisions).confidence),
            TotalWeight(Tail(decisions)))

RecommendationsOf(decisions) ==
  {decisions[i].recommendation : i \in 1 .. Len(decisions)}

\* The place of the first decision that recommends r
FirstSeen(decisions, r) ==
  CHOOSE i \in 1 .. Len(decisions) :
    /\ decisions[i].recommendation = r
    /\ \A j \in 1 .. (i - 1) : decisions[j].recommendation # r

RECURSIVE SumOver(_, _)
SumOver(f, keys) ==
  IF keys = {} THEN Zero
  ELSE LET k == CHOOSE x \in keys : TRUE
       IN  FAdd(f[k], SumOver(f, keys \ {k}))

TallyDone ==
  last.op = "_conduct_voting_session"

\* The winner the tally has computed for a non-empty list
Winner ==
  last.locals.winning_recommendation[1].recommendation

\* C1: for every non-empty list of decisions passed to the tally, the
\* winning recommendation is one of the list's recommendations and no
\* recommendation of the list has a greater accumulated weight; a session
\* that is returned names that winner.
C1_WinnerHasMaximumWeight ==
  (TallyDone /\ last.decisions # <<>>) =>
    /\ Winner \in RecommendationsOf(last.decisions)
    /\ \A r \in RecommendationsOf(last.decisions) :
         ~ RatLess(AccumulatedWeight(last.decisions, Winner),
                   AccumulatedWeight(last.decisions, r))
    /\ last.raised = "none" => last.result[1].winning_recommendation = Winner

\* Three recommendations of three different weights, the last one winning
C1_Witness ==
  /\ TallyDone
  /\ last.raised = "none"
  /\ Len(last.decisions) = 3
  /\ Cardinality(RecommendationsOf(last.decisions)) = 3
  /\ Winner = last.decisions[3].recommendation
  /\ RatLess(AccumulatedWeight(last.decisions, last.decisions[1].recommendation),
             AccumulatedWeight(last.decisions, last.decisions[2].recommendation))

\* C2: when several recommendations have the same maximum accumulated
\* weight, the winner is the one of them that the list names first,
\* whichever recommendation the later decisions vote for.
C2_TieGoesToFirstSeen ==
  (TallyDone /\ last.decisions # <<>>) =>
    \A r \in RecommendationsOf(last.decisions) :
      AccumulatedWeight(last.decisions, r) = AccumulatedWeight(last.decisions, Winner)
        => FirstSeen(last.decisions, Winner) <= FirstSeen(last.decisions, r)

\* A tie of positive weight that the last decision of the list completes
\* for the recommendation that loses
C2_Witness ==
  /\ TallyDone
  /\ last.raised = "none"
  /\ Len(last.decisions) = 3
  /\ last.decisions[3].recommendation # Winner
  /\ last.decisions[2].recommendation = last.decisions[3].recommendation
  /\ AccumulatedWeight(last.decisions, last.decisions[3].recommendation)
       = AccumulatedWeight(last.decisions, Winner)

\* C3: the consensus strength of every session the tally produces is the
\* winner's accumulated weight divided by the total weight of the
\* decisions, and lies in [0, 1]; the session is the one appended.
C3_ConsensusIsWinningShare ==
  (TallyDone /\ last.raised = "none") =>
    LET session == last.result[1]
    IN  /\ FMul(session.consensus_strength, TotalWeight(last.decisions))
             = AccumulatedWeight(last.decisions, session.winning_recommendation)
        /\ ~ RatLess(session.consensus_strength, Zero)
        /\ ~ RatLess(One, session.consensus_strength)
        /\ voting_sessions # <<>>
        /\ voting_sessions[Len(voting_sessions)] = session

\* Weights 1.0, 0.8, 0.6 with confidences 0.9, 0.5, 0.5 voting BUY, BUY,
\* SELL: BUY wins with 1.3 of 1.6
C3_Witness ==
  /\ TallyDone
  /\ last.raised = "none"
  /\ Len(last.decisions) = 3
  /\ last.result[1].winning_recommendation = "BUY"
  /\ last.result[1].consensus_strength = <<13, 16>>
  /\ AccumulatedWeight(last.decisions, "SELL") = <<3, 10>>

\* C4: when the total weight of the decisions is greater than 0, the
\* session's vote distribution has exactly the recommendations of the list
\* as its keys, gives each its accumulated weight divided by the total
\* weight, and its values sum to 1.
C4_DistributionSumsToOne ==
  (TallyDone /\ RatLess(Zero, TotalWeight(last.decisions))) =>
    /\ last.raised = "none"
    /\ LET distribution == last.result[1].vote_distribution
       IN  /\ DOMAIN distribution = RecommendationsOf(last.decisions)
           /\ \A r \in DOMAIN distribution :
                FMul(distribution[r], TotalWeight(last.decisions))
                  = AccumulatedWeight(last.decisions, r)
           /\ SumOver(distribution, DOMAIN distribution) = One

\* Three recommendations, one of them with a share of 0
C4_Witness ==
  /\ TallyDone
  /\ last.raised = "none"
  /\ Cardinality(DOMAIN last.result[1].vote_distribution) = 3
  /\ \E r \in DOMAIN last.result[1].vote_distribution :
       last.result[1].vote_distribution[r] = Zero

\* The tally was reached: called with a list, or by a coordination whose
\* elicitation raised nothing
TallyReached(call) ==
  \/ call.op = "_conduct_voting_session"
  \/ call.op = "coordinate_decision_making" /\ call.failed_agent = 0

NoAgentActive ==
  \A i \in AgentIds : ~ agents[i].active

\* C5: the tally fails for want of participants (the ValueError of max()
\* over no items) if and only if its list of decisions is empty;
\* coordinate_decision_making fails so when no agent is active; and a call
\* that fails appends nothing to voting_sessions or coordination_sessions.
C5_FailsIffNoParticipants ==
  [][/\ TallyReached(last') =>
          ((last'.raised = "ValueError") <=> (last'.decisions = <<>>))
     /\ (last'.op = "coordinate_decision_making" /\ NoAgentActive) =>
          last'.raised = "ValueError"
     /\ (last'.op \in {"coordinate_decision_making", "_conduct_voting_session"}
           /\ last'.raised # "none") =>
          UNCHANGED <<voting_sessions, coordination_sessions>>]_vars

\* A coordination that failed with no agent active, after an earlier one
\* had returned a session
C5_Witness ==
  /\ last.op = "coordinate_decision_making"
  /\ NoAgentActive
  /\ last.raised = "ValueError"
  /\ Len(voting_sessions) = 1
  /\ Len(coordination_sessions) = 1

\* C6: a tally over a non-empty list whose total weight is 0 does not
\* fail: it returns a session of consensus strength 0 and appends it to
\* voting_sessions.
C6_ZeroWeightSessionReturned ==
  (TallyDone /\ last.decisions # <<>> /\ TotalWeight(last.decisions) = Zero) =>
    /\ last.raised = "none"
    /\ last.result[1].consensus_strength = Zero
    /\ voting_sessions # <<>>
    /\ voting_sessions[Len(voting_sessions)] = last.result[1]

CoordinationReturned ==
  last.op = "coordinate_decision_making" /\ last.raised = "none"

\* C7: the participating_agents of every session coordinate_decision_making
\* returns are the ids of the agents whose active flag is true, each once,
\* in registration order; no inactive agent is among them.
C7_ParticipantsAreTheActiveAgents ==
  CoordinationReturned =>
    LET p == last.result[1].participating_agents
    IN  /\ \A i \in AgentIds :
             agents[i].active <=> (\E k \in 1 .. Len(p) : p[k] = agents[i].id)
        /\ \A j, k \in 1 .. Len(p) : j < k => p[j] < p[k]
        /\ last.result[1].total_votes = Cardinality({i \in AgentIds : agents[i].active})

\* A session returned while an agent was inactive and others voted
C7_Witness ==
  /\ CoordinationReturned
  /\ \E i \in AgentIds : ~ agents[i].active
  /\ Len(last.result[1].participating_agents) > 1

\* C8: when the decision of one active agent raises an error, the agent is
\* left out and the coordination returns a session tallied over the other
\* active agents.
C8_FailingAgentIsExcluded ==
  (last.op = "coordinate_decision_making" /\ last.failed_agent # 0) =>
    /\ last.raised = "none"
    /\ LET p == last.result[1].participating_agents
       IN  {p[k] : k \in 1 .. Len(p)}
             = {i \in AgentIds : agents[i].active} \ {last.failed_agent}

UpdateDone ==
  /\ last.op = "update_agent_performance"
  /\ last.known
  /\ last.raised = "none"

\* The score and the accuracy of the outcome last recorded
OutcomeScore ==
  IF "score" \in DOMAIN last.performance_data
  THEN last.performance_data["score"].v
  ELSE last.before[1].performance_score

OutcomeAccuracy ==
  IF "accuracy" \in DOMAIN last.performance_data
  THEN last.performance_data["accuracy"].v
  ELSE <<1, 2>>

\* C9: update_agent_performance moves the agent's performance score by
\* its own learning rate times the distance of the outcome's score from it
\* (performance_score * (1 - learning_rate) + score * learning_rate), so
\* that a score equal to the performance score leaves it unchanged.
C9_PerformanceIsMovingAverage ==
  UpdateDone =>
    LET before == last.before[1]
        after == agents[last.agent_id]
    IN  /\ after.learning_rate = before.learning_rate
        /\ FSub(after.performance_score, before.performance_score)
             = FMul(before.learning_rate,
                    FSub(OutcomeScore, before.performance_score))
        /\ OutcomeScore = before.performance_score
             => after.performance_score = before.performance_score

\* An outcome whose score is the agent's performance score, recorded after
\* an outcome that had moved the score
C9_Witness ==
  /\ UpdateDone
  /\ "score" \in DOMAIN last.performance_data
  /\ OutcomeScore = last.before[1].performance_score
  /\ agents[last.agent_id].performance_score = last.before[1].performance_score
  /\ \E a \in AgentIds : agents[a].performance_score # DefaultPerformanceScore

Clamped(x) ==
  IF RatLess(x, <<1, 10>>) THEN <<1, 10>>
  ELSE IF RatLess(One, x) THEN One
  ELSE x

\* C10: update_agent_performance multiplies the agent's confidence level
\* by 1.05 when the accuracy is above 0.8 and by 0.95 when it is below 0.3,
\* the result clamped to [0.1, 1.0], and leaves it unchanged for an
\* accuracy in [0.3, 0.8], the bounds 0.3 and 0.8 included.
C10_ConfidenceFollowsAccuracy ==
  UpdateDone =>
    LET before == last.before[1].confidence_level
        after == agents[last.agent_id].confidence_level
    IN  /\ RatLess(<<4, 5>>, OutcomeAccuracy)
             => after = Clamped(FMul(before, <<21, 20>>))
        /\ RatLess(OutcomeAccuracy, <<3, 10>>)
             => after = Clamped(FMul(before, <<19, 20>>))
        /\ (~ RatLess(<<4, 5>>, OutcomeAccuracy) /\ ~ RatLess(OutcomeAccuracy, <<3, 10>>))
             => after = before

\* A third good outcome in a row, whose increase is cut off at 1.0
C10_Witness ==
  /\ UpdateDone
  /\ RatLess(<<4, 5>>, OutcomeAccuracy)
  /\ RatLess(One, FMul(last.before[1].confidence_level, <<21, 20>>))
  /\ agents[last.agent_id].confidence_level = One

InRange(x) ==
  ~ RatLess(x, <<1, 10>>) /\ ~ RatLess(One, x)

C12_PerformanceStaysInRange ==
  \A i \in AgentIds : InRange(agents[i].performance_score)

\* The weight the specification's table gives a role
RoleWeight(role) ==
  CASE role = "director"   -> <<1, 1>>
    [] role = "senior"     -> <<4, 5>>
    [] role = "specialist" -> <<3, 5>>
    [] role = "analyst"    -> <<2, 5>>

HistoryOf(history, agent_id) ==
  IF agent_id \in DOMAIN history THEN history[agent_id] ELSE <<>>

\* C14: a call of update_agent_performance for a known agent appends
\* exactly one record, carrying the outcome, to that agent's history and
\* to no other, and the record is appended before the agent's state is
\* updated, so that no step changes an agent without the record of the
\* outcome being stored; no step removes, reorders or modifies a record
\* already stored.
C14_OneRecordAppendedFirst ==
  [][/\ \A b \in DOMAIN performance_history :
          /\ b \in DOMAIN performance_history'
          /\ Len(performance_history'[b]) >= Len(performance_history[b])
          /\ SubSeq(performance_history'[b], 1, Len(performance_history[b]))
               = performance_history[b]
     /\ (last'.op = "update_agent_performance" /\ last'.known) =>
          LET a == last'.agent_id
              old == HistoryOf(performance_history, a)
              new == HistoryOf(performance_history', a)
          IN  /\ \A b \in DOMAIN performance_history' \ {a} :
                   HistoryOf(performance_history, b) = performance_history'[b]
              /\ last'.raised = "none" =>
                   /\ Len(new) = Len(old) + 1
                   /\ new[Len(new)].data = last'.performance_data
              /\ agents'[a] # agents[a] => Len(new) = Len(old) + 1]_vars

SummaryDone ==
  last.op = "get_agent_performance"

\* C15: get_agent_performance fails with NotFoundError for an agent id
\* that is not registered, and for a registered agent without records it
\* returns the zero-valued summary and no error.
C15_UnknownAgentIsAnError ==
  SummaryDone =>
    /\ last.agent_id \notin AgentIds => last.raised = "NotFoundError"
    /\ (last.agent_id \in AgentIds
          /\ HistoryOf(performance_history, last.agent_id) = <<>>) =>
         (last.raised = "none" /\ last.result = <<NoRecords>>)

\* The records of the agent last asked about
Asked ==
  HistoryOf(performance_history, last.agent_id)

\* The places, in that history, of the records newer than now - days
Windowed ==
  {k \in 1 .. Len(Asked) : Asked[k].timestamp > now - last.days}

\* The score of the record at place k: 0.5 for a record without one
ScoreAt(k) ==
  IF "score" \in DOMAIN Asked[k].data THEN Asked[k].data["score"].v ELSE <<1, 2>>

Earliest ==
  CHOOSE k \in Windowed : \A j \in Windowed : k <= j

Latest ==
  CHOOSE k \in Windowed : \A j \in Windowed : k >= j

\* C16: when the agent has records in the window, the summary counts the
\* records newer than now - days, its average score is their mean, its
\* latest score is that of the record appended last, and its trend is
\* "improving" if and only if the window holds at least two records and
\* the latest score is greater than the earliest one in the window, and
\* "stable" otherwise.
C16_SummaryOfTheWindow ==
  (SummaryDone /\ Windowed # {}) =>
    /\ last.raised = "none"
    /\ LET summary == last.result[1]
       IN  /\ summary.performance_records = Cardinality(Windowed)
           /\ FMul(summary.average_score, <<Cardinality(Windowed), 1>>)
                = SumOver([k \in Windowed |-> ScoreAt(k)], Windowed)
           /\ summary.latest_score = ScoreAt(Latest)
           /\ summary.trend \in {"improving", "stable"}
           /\ summary.trend = "improving" <=>
                (Cardinality(Windowed) >= 2
                   /\ RatLess(ScoreAt(Earliest), ScoreAt(Latest)))

\* Two of three records in the window of one day, the later one better,
\* while the latest score is no better than the first one recorded
C16_Witness ==
  /\ SummaryDone
  /\ Len(Asked) = 3
  /\ Cardinality(Windowed) = 2
  /\ last.result[1].trend = "improving"
  /\ ~ RatLess(ScoreAt(1), ScoreAt(3))

ReviewDone ==
  last.op = "coordinate_decision" /\ last.status = "success"

\* C17: the review approves a session if and only if its consensus
\* strength and the strategic confidence both exceed 0.6; in particular a
\* session of consensus strength 0.55 is not approved, whatever the
\* strategic confidence.
C17_ApprovedIffBothExceed ==
  ReviewDone =>
    (last.execution_approved <=>
       (RatLess(<<3, 5>>, last.agent_coordination.consensus_strength)
          /\ RatLess(<<3, 5>>, last.ceo_confidence)))

\* C18: when the review does not approve the session, the final
\* recommendation is not the session's winning recommendation.
C18_OverrideReplacesTheWinner ==
  (ReviewDone /\ ~ last.execution_approved) =>
    last.final_recommendation # last.agent_coordination.winning_recommendation

\* C19: registering an agent under a display name that already exists
\* fails with DuplicateNameError, so that in every reachable state no two
\* agents share a display name and the name index maps every name to the
\* agent that carries it.
C19_NamesAreUnique ==
  /\ (last.op = "_create_agent" /\ last.existed) => last.raised = "DuplicateNameError"
  /\ \A i, j \in AgentIds : agents[i].name = agents[j].name => i = j
  /\ \A i \in AgentIds :
       /\ agents[i].name \in DOMAIN agent_registry
       /\ agent_registry[agents[i].name] = i

Reads ==
  {"coordinate_decision_making", "get_agent_status", "get_agent_performance"}

\* C20: coordinate_decision_making, get_agent_status and
\* get_agent_performance leave every field of every agent unchanged, and a
\* step that changes the confidence level or the performance score of an
\* agent is a call of update_agent_performance for that agent.
C20_OnlyFeedbackWritesAgents ==
  [][/\ last'.op \in Reads => agents' = agents
     /\ \A i \in AgentIds :
          (\/ agents'[i].confidence_level # agents[i].confidence_level
           \/ agents'[i].performance_score # agents[i].performance_score)
            => (last'.op = "update_agent_performance" /\ last'.agent_id = i)]_vars

\* A coordination, after an outcome was recorded for Warren, in which an
\* agent's decision carries another confidence than the agent
C20_Witness ==
  /\ CoordinationReturned
  /\ 1 \in DOMAIN performance_history
  /\ \E k \in 1 .. Len(last.decisions) :
       last.decisions[k].confidence
         # agents[last.decisions[k].agent_id].confidence_level

\* C21: a coordinate_decision_making call that returns appends exactly one
\* session, the one it returns, to the end of voting_sessions; no other
\* call of a run of coordinations, outcome feedback and queries changes
\* voting_sessions, and no step changes or moves a session already there.
C21_SessionsAreAppendOnly ==
  [][/\ Len(voting_sessions') >= Len(voting_sessions)
     /\ SubSeq(voting_sessions', 1, Len(voting_sessions)) = voting_sessions
     /\ IF last'.op = "coordinate_decision_making" /\ last'.raised = "none"
        THEN /\ Len(voting_sessions') = Len(voting_sessions) + 1
             /\ voting_sessions'[Len(voting_sessions')] = last'.result[1]
        ELSE voting_sessions' = voting_sessions]_vars

\* A second session appended after an outcome was recorded for Warren, the
\* two sessions differing in their consensus
C21_Witness ==
  /\ CoordinationReturned
  /\ Len(voting_sessions) = 2
  /\ 1 \in DOMAIN performance_history
  /\ voting_sessions[1].consensus_strength # voting_sessions[2].consensus_strength

\* Warren as __init__ registered it
Registered ==
  [agents[1] EXCEPT !.performance_score = DefaultPerformanceScore,
                    !.confidence_level = FirmTable[1].base_confidence]

\* The agent after one whole call of update_agent_performance
Applied(agent, performance_data) ==
  [agent EXCEPT
     !.performance_score =
        UpdatedScore(agent.performance_score, agent.learning_rate,
                     DictGet(performance_data, "score",
                             [t |-> "num", v |-> agent.performance_score]).v),
     !.confidence_level =
        AdjustedConfidence(agent.confidence_level,
                           DictGet(performance_data, "accuracy", Num(1, 2)).v)]

BothReturned ==
  \A t \in Threads : threads[t].pc = "done" /\ threads[t].raised = "none"

\* C22: when two update_agent_performance calls for the same agent ran in
\* two threads and both returned, the agent's performance score and
\* confidence level are those of the two calls made one after the other, in
\* one of the two orders, and both records are in the agent's history.
C22_NoUpdateIsLost ==
  BothReturned =>
    /\ \E first, second \in Threads :
         /\ first # second
         /\ agents[1] = Applied(Applied(Registered, threads[first].performance_data),
                                threads[second].performance_data)
    /\ 1 \in DOMAIN performance_history
    /\ Len(performance_history[1]) = Cardinality(Threads)

\* The decisions the last coordination collected
Elicited ==
  IF last.op = "coordinate_decision_making" THEN last.decisions ELSE <<>>

\* The words of the context's market type, and its volatility
Category(context) ==
  IF "market_type" \in DOMAIN context THEN context["market_type"].v ELSE <<"general">>

Volatility(context) ==
  IF "volatility" \in DOMAIN context THEN context["volatility"].v ELSE <<1, 10>>

Matches(agent, context) ==
  \E e \in 1 .. Len(agent.expertise_areas), w \in 1 .. Len(Category(context)) :
    agent.expertise_areas[e] = Category(context)[w]

RiskReduced(agent, context) ==
  /\ "risk_aversion" \in DOMAIN agent.personality_traits
  /\ RatLess(<<3, 10>>, Volatility(context))

\* C23: the confidence of every elicited decision is the agent's
\* confidence_level, times 1.2 exactly when the context's market type names
\* one of the agent's expertise areas, times (1 - risk_aversion * 0.2)
\* exactly when the agent has a risk_aversion trait and the volatility
\* (0.1 by default) is above 0.3, then brought into [0.1, 1.0].
C23_ConfidenceOfADecision ==
  \A k \in 1 .. Len(Elicited) :
    LET d == Elicited[k]
        agent == agents[d.agent_id]
        boost == IF Matches(agent, last.context) THEN <<6, 5>> ELSE One
        cut == IF RiskReduced(agent, last.context)
               THEN FSub(One, FMul(agent.personality_traits["risk_aversion"], <<1, 5>>))
               ELSE One
    IN  /\ d.confidence = Clamped(FMul(FMul(agent.confidence_level, boost), cut))
        /\ InRange(d.confidence)

\* A coordination in which a decision was boosted and reduced, one was
\* boosted and capped at 1.0, and one was reduced and raised to 0.1
C23_Witness ==
  /\ CoordinationReturned
  /\ \E k \in 1 .. Len(Elicited) :
       LET agent == agents[Elicited[k].agent_id]
       IN  /\ Matches(agent, last.context) /\ RiskReduced(agent, last.context)
           /\ RatLess(<<1, 10>>, Elicited[k].confidence)
           /\ RatLess(Elicited[k].confidence, One)
  /\ \E k \in 1 .. Len(Elicited) :
       /\ Elicited[k].confidence = One
       /\ RatLess(agents[Elicited[k].agent_id].confidence_level, One)
  /\ \E k \in 1 .. Len(Elicited) :
       /\ Elicited[k].confidence = <<1, 10>>
       /\ RiskReduced(agents[Elicited[k].agent_id], last.context)

\* C24: the recommendation of a decision of an agent other than Warren,
\* Cathie, Quant and Degen_Auditor follows from the confidence of that
\* decision: BUY above 0.7, HOLD above 0.4 and up to 0.7, SELL up to 0.4.
C24_DefaultRuleFollowsConfidence ==
  \A k \in 1 .. Len(Elicited) :
    LET d == Elicited[k]
    IN  agents[d.agent_id].name \notin Personas =>
          d.recommendation =
            IF RatLess(<<7, 10>>, d.confidence) THEN "BUY"
            ELSE IF RatLess(<<2, 5>>, d.confidence) THEN "HOLD"
            ELSE "SELL"

\* A coordination with decisions of each kind, one of confidence 0.7 and
\* one of confidence 0.4 among them
C24_Witness ==
  /\ CoordinationReturned
  /\ \A r \in Recommendations :
       \E k \in 1 .. Len(Elicited) :
         /\ agents[Elicited[k].agent_id].name \notin Personas
         /\ Elicited[k].recommendation = r
  /\ \E k \in 1 .. Len(Elicited) : Elicited[k].confidence = <<7, 10>>
  /\ \E k \in 1 .. Len(Elicited) : Elicited[k].confidence = <<2, 5>>

\* C25: the record of a coordination holds the decisions as they were
\* elicited, each with the vote weight its agent had then; no later step
\* changes a record already in coordination_sessions, and a call of
\* update_agent_performance changes neither the recorded decisions nor the
\* sessions tallied from them.
C25_RecordedDecisionsAreFrozen ==
  [][/\ SubSeq(coordination_sessions', 1, Len(coordination_sessions))
          = coordination_sessions
     /\ (last'.op = "coordinate_decision_making" /\ last'.raised = "none") =>
          LET record == coordination_sessions'[Len(coordination_sessions')]
          IN  /\ Len(coordination_sessions') = Len(coordination_sessions) + 1
              /\ record.decisions = last'.decisions
              /\ record.result = voting_sessions'[Len(voting_sessions')]
              /\ \A k \in 1 .. Len(record.decisions) :
                   record.decisions[k].vote_weight
                     = agents[record.decisions[k].agent_id].vote_weight
     /\ last'.op = "update_agent_performance" =>
          UNCHANGED <<coordination_sessions, voting_sessions>>]_vars

\* An outcome has just changed Warren's confidence level, after a
\* coordination in which Warren took part was recorded
C25_Witness ==
  /\ UpdateDone
  /\ last.agent_id = 1
  /\ agents[1].confidence_level # last.before[1].confidence_level
  /\ Len(coordination_sessions) > 0
  /\ \E k \in 1 .. Len(coordination_sessions[1].decisions) :
       coordination_sessions[1].decisions[k].agent_id = 1

\* C26: a coordination that ends with the error of one agent's decision
\* returns no session and discards the decisions collected before it:
\* voting_sessions, coordination_sessions and every agent are as they were
\* before the call.
C26_AbortedCoordinationLeavesNoTrace ==
  [][(last'.op = "coordinate_decision_making" /\ last'.failed_agent # 0) =>
       /\ last'.raised # "none"
       /\ last'.result = <<>>
       /\ UNCHANGED <<voting_sessions, coordination_sessions, agents,
                      performance_history>>]_vars

\* A coordination ended by the error of Degen_Auditor's decision, nine
\* decisions collected before it, after an earlier session was recorded
C26_Witness ==
  /\ last.op = "coordinate_decision_making"
  /\ last.failed_agent = 10
  /\ Len(last.decisions) = 9
  /\ Len(voting_sessions) = 1
  /\ Len(coordination_sessions) = 1

ListedAll ==
  last.op = "get_agent_status" /\ last.agent_name = ""

\* The entries of a listing under a department that carry a name
EntriesOf(listing, dept, name) ==
  {k \in 1 .. Len(listing[dept]) : listing[dept][k].name = name}

\* C27: in every state the registry holds the 20 agents of the five
\* departments that __init__ registered, under their ids and names;
\* switching agents on or off changes no field but active; and
\* get_agent_status() without a name lists every agent, active or not,
\* exactly once, under its own department, with its active flag.
C27_AgentsAreNeverRemoved ==
  /\ [](/\ Len(agents) = Len(FirmTable)
        /\ DOMAIN agent_registry = {FirmTable[i].name : i \in 1 .. Len(FirmTable)}
        /\ \A i \in AgentIds :
             /\ agents[i].id = i
             /\ agents[i].name = FirmTable[i].name
             /\ agents[i].department = FirmTable[i].department
             /\ agent_registry[agents[i].name] = i
        /\ ListedAll =>
             LET listing == last.result.status
             IN  /\ DOMAIN listing = {Departments[k] : k \in 1 .. Len(Departments)}
                 /\ \A i \in AgentIds, dept \in DOMAIN listing :
                      /\ Cardinality(EntriesOf(listing, dept, agents[i].name))
                           = IF dept = agents[i].department THEN 1 ELSE 0
                      /\ \A k \in EntriesOf(listing, dept, agents[i].name) :
                           listing[dept][k].active = agents[i].active)
  /\ [][last'.op = "set_active" =>
          /\ Len(agents') = Len(agents)
          /\ \A i \in AgentIds :
               [agents'[i] EXCEPT !.active = agents[i].active] = agents[i]]_vars

\* A listing of all agents made while Degen_Auditor was switched off and
\* the others were active
C27_Witness ==
  /\ ListedAll
  /\ ~ agents[10].active
  /\ \A i \in AgentIds \ {10} : agents[i].active
  /\ \E k \in 1 .. Len(last.result.status["risk_control"]) :
       /\ last.result.status["risk_control"][k].name = "Degen_Auditor"
       /\ ~ last.result.status["risk_control"][k].active

\* C28: every decision coordinate_decision_making elicits has a confidence
\* of at least 0.1 and a vote weight of at least 0.4, so that every session
\* it returns has a total weight above 0 and a consensus strength above 0,
\* and no coordination ends in the division by a total weight of 0.
C28_CoordinatedWeightIsPositive ==
  /\ \A k \in 1 .. Len(Elicited) :
       /\ ~ RatLess(Elicited[k].confidence, <<1, 10>>)
       /\ ~ RatLess(Elicited[k].vote_weight, <<2, 5>>)
  /\ last.op = "coordinate_decision_making" => last.raised # "ZeroDivisionError"
  /\ CoordinationReturned =>
       /\ RatLess(Zero, SumRange([k \in 1 .. Len(Elicited) |->
                                    FMul(Elicited[k].vote_weight, Elicited[k].confidence)],
                                 1, Len(Elicited)))
       /\ RatLess(Zero, last.result[1].consensus_strength)
  /\ \A s \in 1 .. Len(voting_sessions) :
       RatLess(Zero, voting_sessions[s].consensus_strength)

\* A session returned with a decision of the least weight there is: an
\* analyst's, of confidence 0.1
C28_Witness ==
  /\ CoordinationReturned
  /\ \E k \in 1 .. Len(Elicited) :
       /\ Elicited[k].confidence = <<1, 10>>
       /\ Elicited[k].vote_weight = <<2, 5>>

\* A registry whose agents have the names, roles, traits, expertise,
\* confidence levels and active flags of registry, in the same order, and
\* other ids, learning rates, performance scores and creation times
Twin(registry, shift) ==
  List([i \in 1 .. Len(registry) |->
          [registry[i] EXCEPT !.id = Len(registry) + i,
                              !.learning_rate = DrawLearningRate(i, shift),
                              !.performance_score = FSub(One, DrawLearningRate(i, shift)),
                              !.created_at = registry[i].created_at + 1]])

\* What a coordination of the twin gives for the context, at a later time
TwinResult(shift, context) ==
  VotingResult(CollectDecisionsOf(Twin(agents, shift), context, now + 1).decisions,
               now + 1, Len(voting_sessions) + 2)

\* C29: the session a coordination returns has the winning recommendation,
\* consensus strength, vote distribution and number of votes that a
\* coordination with the same context gives on any registry whose agents
\* have the same names, roles, traits, expertise, confidence levels and
\* active flags in the same order, whatever their learning rates, ids,
\* performance scores and timestamps.
C29_CoordinationIsDeterministic ==
  CoordinationReturned =>
    \A shift \in 0 .. (Len(LearningRates) - 1) :
      LET mine == last.result[1]
          twin == TwinResult(shift, last.context)
      IN  /\ twin.winning_recommendation = mine.winning_recommendation
          /\ twin.consensus_strength = mine.consensus_strength
          /\ twin.vote_distribution = mine.vote_distribution
          /\ twin.total_votes = mine.total_votes

\* A session returned after an outcome changed Warren's confidence level
\* and performance score, with votes for more than one recommendation
C29_Witness ==
  /\ CoordinationReturned
  /\ 1 \in DOMAIN performance_history
  /\ agents[1].performance_score # DefaultPerformanceScore
  /\ Cardinality(DOMAIN last.result[1].vote_distribution) > 1
  /\ \E shift \in 0 .. (Len(LearningRates) - 1) :
       Twin(agents, shift)[1].learning_rate # agents[1].learning_rate

OrderAnswered ==
  last.op = "place_order" /\ last.accepted

MarketOrder ==
  last.data.price = <<>>

\* C30: after any orders the route /place_order accepted, no balance of the
\* account is negative; a market order refused for want of balance leaves
\* the balances and the open orders as they were; a limit order leaves the
\* balances as they were and appends one order of status NEW to the open
\* orders.
C30_BalancesStayNonNegative ==
  /\ \A k \in DOMAIN binance_client.account_balance :
       ~ RatLess(binance_client.account_balance[k], Zero)
  /\ (OrderAnswered /\ MarketOrder /\ last.status = 400) =>
       binance_client = last.before
  /\ (OrderAnswered /\ ~ MarketOrder) =>
       /\ last.status = 200
       /\ binance_client.account_balance = last.before.account_balance
       /\ Len(binance_client.open_orders) = Len(last.before.open_orders) + 1
       /\ SubSeq(binance_client.open_orders, 1, Len(last.before.open_orders))
            = last.before.open_orders
       /\ binance_client.open_orders[Len(binance_client.open_orders)].status = "NEW"

====
